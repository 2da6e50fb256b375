-------------------------- MODULE RpcSessionProofs --------------------------
(***************************************************************************)
(* Proofs about RpcSession, for any number of calls and of sessions.       *)
(*                                                                         *)
(* The inductive invariant has two halves.  Sessions: what OpenSession is  *)
(* doing with which generation, and that an unfenced session it has handed *)
(* out is the active one or the one it is about to fence.  Calls: every    *)
(* result channel is in one place (the map, the list of rpcMux.close, the  *)
(* hand of rpcMux.deliver) or full, and no two calls share an id.          *)
(***************************************************************************)
EXTENDS RpcSession, TLAPS

Building == {"dial", "negotiate", "abandon", "install", "fence", "return"}
Swapping == {"fence", "return"}

\* The opener works on the newest generation, which nobody has been given.
OpenerNewest ==
  /\ opener.pc # "idle" => opener.gen = generation /\ generation \in Gens
  /\ opener.pc \notin {"idle", "dial"} => stage[opener.gen] # "none"
  /\ opener.pc # "idle" => opener.gen \notin returned
  /\ opener.pc = "dial" => stage[opener.gen] = "none"

ReturnedBuilt == \A g \in returned : g <= generation /\ stage[g] # "none"

Ahead == \A g \in Gens : g > generation => stage[g] = "none"

\* Between Install and Return the active session is the new one, or none.
ActiveWhileSwapping ==
  opener.pc \in Swapping =>
    /\ active \in {opener.gen, 0}
    /\ stage[opener.gen] # "end" => active = opener.gen

Tracked ==
  \A g \in returned :
    stage[g] # "end" => \/ active = g
                        \/ opener.pc \in Swapping /\ opener.previous = g

\* Whoever is tracked is the newest one returned.
TrackedNewest ==
  \A h \in returned :
    /\ active # 0 => h <= active
    /\ opener.pc \in Swapping /\ opener.previous # 0 => h <= opener.previous

\* The opener fences the session before it waits for it.
Caused ==
  /\ \A g \in Gens : stage[g] \notin {"none", "up"} => cause[g] \in Causes
  /\ \A g \in Gens : stage[g] \in {"none", "up", "mux"} <=> closed[g] = "nil"
  /\ opener.pc = "return" /\ opener.previous # 0
       => stage[opener.previous] # "up"

SenderKnown == \A g \in Gens : hid[g] # "idle" => g \in returned

SessionInv ==
  /\ OpenerNewest /\ ReturnedBuilt /\ Ahead /\ ActiveWhileSwapping
  /\ Tracked /\ TrackedNewest /\ Caused /\ SenderKnown
-----------------------------------------------------------------------------
CallKnown ==
  \A c \in Calls :
    /\ call[c].pc = "idle" <=> call[c].gen = 0
    /\ call[c].pc # "idle" => call[c].gen \in returned
    /\ call[c].pc \in {"idle", "register"} => /\ call[c].id = <<0, 0>>
                                              /\ box[c] = Empty
    /\ call[c].pc \in {"send", "wait"} => call[c].id # <<0, 0>>
    /\ call[c].pc # "end" => call[c].outcome = "none"
    /\ call[c].outcome = "reply" => call[c].of = c

\* An id names its session and is not one that register has still to give.
IdBounded ==
  \A c \in Calls :
    \/ call[c].id = <<0, 0>>
    \/ \E n \in Nat : /\ call[c].id = <<call[c].gen, n>>
                      /\ n >= 1 /\ n <= nextID[call[c].gen]

IdUnique ==
  \A c, d \in Calls :
    call[c].id = call[d].id /\ call[c].id # <<0, 0>> => c = d

RequestOf ==
  \A r \in requests : call[r.of].id = r.id /\ call[r.of].pc \in {"wait", "end"}

\* Where the channel of a call is.
InMap ==
  \A g \in Gens : \A c \in pending[g] :
    /\ call[c].gen = g /\ call[c].pc \in {"send", "wait"}
    /\ call[c].id # <<0, 0>>
    /\ box[c] = Empty
    /\ closed[g] = "nil"
    /\ c \notin answering[g]
    /\ hand[g] # Empty => hand[g].to # c

InClose ==
  \A g \in Gens : \A c \in answering[g] :
    /\ call[c].gen = g /\ call[c].pc \in {"send", "wait", "end"}
    /\ box[c] = Empty
    /\ closed[g] # "nil"
    /\ hand[g] # Empty => hand[g].to # c

InHand ==
  \A g \in Gens : hand[g] # Empty =>
    /\ hand[g].of = hand[g].to
    /\ call[hand[g].to].gen = g
    /\ call[hand[g].to].pc \in {"send", "wait", "end"}
    /\ box[hand[g].to] = Empty

InBox ==
  \A c \in Calls :
    /\ box[c].what = "reply" => box[c].of = c
    /\ box[c].what \in Causes => closed[call[c].gen] # "nil"

Somewhere ==
  \A c \in Calls : LET g == call[c].gen IN
    call[c].pc \in {"send", "wait"} => \/ c \in pending[g]
                                       \/ c \in answering[g]
                                       \/ hand[g] # Empty /\ hand[g].to = c
                                       \/ box[c] # Empty

CallInv ==
  /\ CallKnown /\ IdBounded /\ IdUnique /\ RequestOf
  /\ InMap /\ InClose /\ InHand /\ InBox /\ Somewhere

Inv == TypeOK /\ SessionInv /\ CallInv
-----------------------------------------------------------------------------
(* Types.                                                                  *)

\* What a step may write to a call's record is a call record again.
LEMMA CallRecords ==
  ASSUME NEW o \in Call
  PROVE  /\ \A x \in Outcomes, d \in Calls \cup {"mux"} :
              [o EXCEPT !.pc = "end", !.outcome = x, !.of = d] \in Call
         /\ \A g \in Gens, x \in Outcomes :
              [o EXCEPT !.pc = "end", !.gen = g, !.outcome = x] \in Call
         /\ \A g \in Gens : [o EXCEPT !.pc = "register", !.gen = g] \in Call
         /\ \A i \in Gens \X Nat : [o EXCEPT !.pc = "send", !.id = i] \in Call
         /\ [o EXCEPT !.pc = "wait"] \in Call
BY Zenon DEF Call, Ids

\* The record after Finish, field by field (Session.CallRPC returning).
LEMMA FinishedCall ==
  ASSUME NEW c \in Calls, NEW x \in Outcomes, NEW d \in Calls \cup {"mux"},
         call \in [Calls -> Call], Finish(c, x, d)
  PROVE  /\ call' \in [Calls -> Call]
         /\ \A e \in Calls : e # c => call'[e] = call[e]
         /\ call'[c].pc = "end" /\ call'[c].outcome = x /\ call'[c].of = d
         /\ call'[c].gen = call[c].gen /\ call'[c].id = call[c].id
<1>1. call' = [call EXCEPT ![c] = [call[c] EXCEPT !.pc = "end", !.outcome = x,
                                                 !.of = d]]
  BY DEF Finish
<1>2. call[c] \in Call
  OBVIOUS
<1>3. [call[c] EXCEPT !.pc = "end", !.outcome = x, !.of = d] \in Call
  BY <1>2, CallRecords
<1> DEFINE o == [call[c] EXCEPT !.pc = "end", !.outcome = x, !.of = d]
<1>4. /\ o.pc = "end" /\ o.outcome = x /\ o.of = d
      /\ o.gen = call[c].gen /\ o.id = call[c].id
  BY <1>2 DEF Call
<1> HIDE DEF o
<1> QED
  BY <1>1, <1>3, <1>4 DEF o

\* Shutdown keeps the types of what it writes.
LEMMA ShutdownType ==
  ASSUME NEW g \in Gens, NEW why \in Causes, Shutdown(g, why),
         stage \in [Gens -> Stages], cause \in [Gens -> Causes \cup {"nil"}]
  PROVE  /\ stage' \in [Gens -> Stages]
         /\ cause' \in [Gens -> Causes \cup {"nil"}]
BY DEF Shutdown, Stages

\* An outcome that comes from shutdown needs a cause, and a call or an opener
\* at work a session, so the types are not inductive alone.
LEMMA TypeStep ==
  ASSUME TypeOK, Caused, CallKnown, OpenerNewest, [Next]_vars
  PROVE  TypeOK'
<1> USE MaxGenAssumption, MaxQueueAssumption
<1> USE DEF client, mux, channel
<1>1. CASE OpenSession
  <2>1. generation + 1 \in Gens
    BY <1>1 DEF TypeOK, OpenSession, Gens
  <2>2. opener' \in Opener
    BY <1>1, <2>1 DEF TypeOK, OpenSession, Opener
  <2> QED
    BY <1>1, <2>1, <2>2 DEF TypeOK, OpenSession
<1>2. CASE Opening
  <2> USE DEF Release
  <2>1. CASE Build
    <3>1. stage' \in [Gens -> Stages]
      BY <2>1 DEF TypeOK, Build, Stages
    <3>2. opener' \in Opener
      BY <2>1 DEF TypeOK, Build, Opener
    <3> QED
      BY <2>1, <3>1, <3>2 DEF TypeOK, Build
  <2>2. CASE DialFails \/ Ready \/ Abandoned
    BY <2>2 DEF TypeOK, DialFails, Ready, Abandoned, Opener
  <2>3. CASE NegotiationFails
    <3>1. opener.gen \in Gens \cup {0} /\ Shutdown(opener.gen, "lost")
      BY <2>3 DEF TypeOK, NegotiationFails, Opener
    <3>2. /\ stage' \in [Gens -> Stages]
          /\ cause' \in [Gens -> Causes \cup {"nil"}]
      BY <3>1 DEF TypeOK, Shutdown, Stages, Causes
    <3> QED
      BY <2>3, <3>2 DEF TypeOK, NegotiationFails, Opener
  <2>4. CASE Install
    BY <2>4 DEF TypeOK, Install, Opener
  <2>5. CASE FencePrevious
    <3>1. /\ stage' \in [Gens -> Stages]
          /\ cause' \in [Gens -> Causes \cup {"nil"}]
      BY <2>5 DEF TypeOK, FencePrevious, Shutdown, Stages, Causes
    <3>2. opener' \in Opener
      BY <2>5 DEF TypeOK, FencePrevious, Opener
    <3> QED
      BY <2>5, <3>1, <3>2 DEF TypeOK, FencePrevious
  <2>6. CASE Return
    <3>1. returned' \subseteq Gens
      BY <2>6 DEF TypeOK, Return, OpenerNewest
    <3>2. opener' \in Opener
      BY <2>6 DEF TypeOK, Return, Opener
    <3> QED
      BY <2>6, <3>1, <3>2 DEF TypeOK, Return
  <2> QED
    BY <1>2, <2>1, <2>2, <2>3, <2>4, <2>5, <2>6 DEF Opening
<1>3. ASSUME NEW g \in Gens, ShutdownStep(g)
      PROVE  TypeOK'
  <2>1. CASE CloseMux(g)
    BY <2>1 DEF TypeOK, CloseMux, Stages
  <2>2. ASSUME NEW c \in Calls, AnswerPending(g, c)
        PROVE  TypeOK'
    <3>1. closed[g] \in Causes
      BY <2>2 DEF TypeOK, AnswerPending, Caused
    <3> DEFINE m == [what |-> closed[g], of |-> "mux"]
    <3>2. m \in Message
      BY <3>1 DEF Message
    <3> HIDE DEF m
    <3>3. /\ box' = [box EXCEPT ![c] = m]
          /\ answering' = [answering EXCEPT ![g] = @ \ {c}]
          /\ UNCHANGED <<client, stage, cause, closed, nextID, pending, hand,
                         call, requests, channel>>
      BY <2>2 DEF AnswerPending, m
    <3>4. box' \in [Calls -> {Empty} \cup Message]
      BY <3>2, <3>3 DEF TypeOK
    <3>5. answering' \in [Gens -> SUBSET Calls]
      BY <3>3 DEF TypeOK
    <3> QED
      BY <3>3, <3>4, <3>5 DEF TypeOK
  <2>3. CASE Proceed(g) \/ ClearActive(g)
    BY <2>3 DEF TypeOK, Proceed, ClearActive, Stages
  <2> QED
    BY <1>3, <2>1, <2>2, <2>3 DEF ShutdownStep
<1>4. ASSUME NEW g \in Gens, LinkLost(g) \/ CloseContext(g)
      PROVE  TypeOK'
  BY <1>4 DEF TypeOK, LinkLost, CloseContext, Shutdown, Stages, Causes
<1>5. ASSUME NEW g \in Gens, NEW request \in requests, Deliver(g, request)
      PROVE  TypeOK'
  BY <1>5 DEF TypeOK, Deliver
<1>6. ASSUME NEW g \in Gens, HandOver(g)
      PROVE  TypeOK'
  BY <1>6 DEF TypeOK, HandOver, Message, Empty
<1>7. ASSUME NEW g \in Gens,
             \/ SendHID(g) \/ Push(g) \/ FlushHID(g) \/ Flushed(g)
             \/ FlushWakes(g) \/ FlushFails(g) \/ Drain(g)
             \/ OnBufferedAmountLow(g)
      PROVE  TypeOK'
  <2>1. /\ hid' \in [Gens -> {"idle", "checked", "flush", "await"}]
        /\ queued' \in [Gens -> 0..MaxQueue]
        /\ low' \in [Gens -> BOOLEAN]
        /\ token' \in [Gens -> BOOLEAN]
    <3>1. CASE SendHID(g) \/ FlushHID(g) \/ Flushed(g) \/ FlushFails(g)
      BY <3>1 DEF TypeOK, SendHID, FlushHID, Flushed, FlushFails
    <3>2. CASE Push(g)
      BY <3>2 DEF TypeOK, Push
    <3>3. CASE FlushWakes(g) \/ OnBufferedAmountLow(g)
      BY <3>3 DEF TypeOK, FlushWakes, OnBufferedAmountLow
    <3>4. CASE Drain(g)
      <4>1. queued' \in [Gens -> 0..MaxQueue]
        BY <3>4 DEF TypeOK, Drain
      <4>2. low' \in [Gens -> BOOLEAN]
        BY <3>4, Zenon DEF TypeOK, Drain
      <4> QED
        BY <3>4, <4>1, <4>2 DEF TypeOK, Drain
    <3> QED
      BY <1>7, <3>1, <3>2, <3>3, <3>4
  <2>2. UNCHANGED <<client, stage, cause, mux, call, requests>>
    BY <1>7 DEF SendHID, Push, FlushHID, Flushed, FlushWakes, FlushFails, Drain,
                OnBufferedAmountLow
  <2> QED
    BY <2>1, <2>2 DEF TypeOK
<1>8. ASSUME NEW c \in Calls, NEW g \in Gens, CallRPC(c, g)
      PROVE  TypeOK'
  <2>1. call' \in [Calls -> Call]
    <3>1. call[c] \in Call
      BY DEF TypeOK
    <3>2. ASSUME NEW x \in Outcomes, Refuse(c, g, x)
          PROVE  call' \in [Calls -> Call]
      <4> DEFINE o == [call[c] EXCEPT !.pc = "end", !.gen = g, !.outcome = x]
      <4>1. o \in Call
        BY <3>1, CallRecords
      <4>2. call' = [call EXCEPT ![c] = o]
        BY <3>2 DEF Refuse
      <4> HIDE DEF o
      <4> QED
        BY <4>1, <4>2 DEF TypeOK
    <3>3. Done(g) => cause[g] \in Outcomes
      BY DEF Caused, Done, Outcomes
    <3>4. "unavailable" \in Outcomes
      BY DEF Outcomes, Errors
    <3>5. ASSUME call' = [call EXCEPT ![c].pc = "register", ![c].gen = g]
          PROVE  call' \in [Calls -> Call]
      <4> DEFINE o == [call[c] EXCEPT !.pc = "register", !.gen = g]
      <4>1. o \in Call
        BY <3>1, CallRecords
      <4>2. call' = [call EXCEPT ![c] = o]
        BY <3>5
      <4> HIDE DEF o
      <4> QED
        BY <4>1, <4>2 DEF TypeOK
    <3> QED
      BY <1>8, <3>2, <3>3, <3>4, <3>5 DEF CallRPC
  <2> QED
    BY <1>8, <2>1 DEF TypeOK, CallRPC
<1>9. ASSUME NEW c \in Calls, Register(c) \/ SendRequest(c) \/ Receive(c)
      PROVE  TypeOK'
  <2> DEFINE g == call[c].gen
  <2>1. call[c] \in Call /\ g \in Gens
    BY <1>9 DEF TypeOK, Call, CallKnown, Register, SendRequest, Receive
  <2>2. CASE Register(c) /\ closed[g] # "nil"
    <3>1. closed[g] \in Outcomes
      BY <2>1, <2>2 DEF TypeOK, Outcomes
    <3>2. Finish(c, closed[g], "mux")
      BY <2>2 DEF Register
    <3>3. call' \in [Calls -> Call]
      BY <3>1, <3>2, FinishedCall DEF TypeOK
    <3> QED
      BY <2>2, <3>3 DEF TypeOK, Register
  <2>3. CASE Register(c) /\ closed[g] = "nil"
    <3> DEFINE i == <<g, nextID[g] + 1>>
               o == [call[c] EXCEPT !.pc = "send", !.id = i]
    <3>1. nextID' \in [Gens -> Nat] /\ pending' \in [Gens -> SUBSET Calls]
      BY <2>1, <2>3 DEF TypeOK, Register
    <3>2. i \in Gens \X Nat
      BY <2>1 DEF TypeOK
    <3> HIDE DEF i
    <3>3. o \in Call
      BY <2>1, <3>2, CallRecords
    <3>4. call' = [call EXCEPT ![c] = o]
      BY <2>3 DEF Register, i
    <3> HIDE DEF o
    <3>5. call' \in [Calls -> Call]
      BY <3>3, <3>4 DEF TypeOK
    <3> QED
      BY <2>3, <3>1, <3>5 DEF TypeOK, Register
  <2>4. CASE SendRequest(c)
    <3> DEFINE o == [call[c] EXCEPT !.pc = "wait"]
    <3>1. o \in Call
      BY <2>1, CallRecords
    <3>2. call' = [call EXCEPT ![c] = o]
      BY <2>4 DEF SendRequest
    <3> HIDE DEF o
    <3>3. call' \in [Calls -> Call]
      BY <3>1, <3>2 DEF TypeOK
    <3>4. requests' \subseteq [id: Ids, of: Calls]
      BY <2>1, <2>4 DEF TypeOK, SendRequest, Call
    <3> QED
      BY <2>4, <3>3, <3>4 DEF TypeOK, SendRequest
  <2>5. CASE Receive(c)
    <3>1. box[c].what \in Outcomes /\ box[c].of \in Calls \cup {"mux"}
      BY <2>5 DEF TypeOK, Receive, Message, Outcomes
    <3>2. Finish(c, box[c].what, box[c].of)
      BY <2>5 DEF Receive
    <3>3. call' \in [Calls -> Call]
      BY <3>1, <3>2, FinishedCall DEF TypeOK
    <3>4. pending' \in [Gens -> SUBSET Calls]
      BY <2>5 DEF TypeOK, Receive
    <3> QED
      BY <2>5, <3>3, <3>4 DEF TypeOK, Receive
  <2> QED
    BY <1>9, <2>2, <2>3, <2>4, <2>5
<1>10. ASSUME NEW c \in Calls, SendFails(c) \/ Cancelled(c)
       PROVE  TypeOK'
  <2>1. PICK error \in Errors : GiveUp(c, error)
    BY <1>10 DEF SendFails, Cancelled, Errors
  <2>2. call' \in [Calls -> Call]
    <3>1. error \in Outcomes
      BY DEF Outcomes
    <3>2. Finish(c, error, "mux")
      BY <2>1 DEF GiveUp
    <3> QED
      BY <3>1, <3>2, FinishedCall DEF TypeOK
  <2>3. pending' \in [Gens -> SUBSET Calls]
    BY <2>1 DEF TypeOK, GiveUp
  <2> QED
    BY <2>1, <2>2, <2>3 DEF TypeOK, GiveUp
<1>11. CASE UNCHANGED vars
  BY <1>11 DEF TypeOK, vars
<1> QED
  BY <1>1, <1>2, <1>3, <1>4, <1>5, <1>6, <1>7, <1>8, <1>9, <1>10, <1>11
     DEF Next, CallStep
-----------------------------------------------------------------------------
(* Sessions.                                                               *)

\* What the session half speaks of.
sessions == <<generation, active, opener, returned, stage, cause, closed, hid>>

LEMMA SessionStep ==
  ASSUME TypeOK, SessionInv, [Next]_vars
  PROVE  SessionInv'
<1> USE MaxGenAssumption
<1> USE DEF client, mux, channel, SessionInv, OpenerNewest, ReturnedBuilt, Ahead,
            ActiveWhileSwapping, Tracked, TrackedNewest, Caused, SenderKnown,
            Swapping
<1> generation \in Nat /\ \A g \in Gens : g \in Nat /\ g > 0
  BY DEF TypeOK, Gens
<1> opener \in Opener /\ returned \subseteq Gens /\ active \in Gens \cup {0}
  BY DEF TypeOK
<1>1. CASE OpenSession
  <2>1. generation + 1 \in Gens
    BY <1>1 DEF OpenSession, Gens
  <2> QED
    BY <1>1, <2>1 DEF OpenSession, Opener
<1>2. CASE Build
  BY <1>2 DEF Build, TypeOK, Opener
<1>3. CASE DialFails
  BY <1>3 DEF DialFails, Release, TypeOK, Opener
<1>4. CASE Ready
  BY <1>4 DEF Ready, TypeOK, Opener
<1>5. CASE NegotiationFails
  BY <1>5 DEF NegotiationFails, Shutdown, TypeOK, Opener, Causes
<1>6. CASE Abandoned
  BY <1>6 DEF Abandoned, Fenced, Release, TypeOK, Opener
<1>7. CASE Install
  BY <1>7 DEF Install, TypeOK, Opener
<1>8. CASE FencePrevious
  BY <1>8 DEF FencePrevious, Shutdown, TypeOK, Opener, Causes
<1>9. CASE Return
  BY <1>9 DEF Return, Fenced, Release, TypeOK, Opener
<1>10. ASSUME NEW g \in Gens, CloseMux(g)
       PROVE  SessionInv'
  BY <1>10 DEF CloseMux, TypeOK, Opener, Causes
<1>11. ASSUME NEW g \in Gens, Proceed(g)
       PROVE  SessionInv'
  BY <1>11 DEF Proceed, TypeOK, Opener
<1>12. ASSUME NEW g \in Gens, ClearActive(g)
       PROVE  SessionInv'
  BY <1>12 DEF ClearActive, TypeOK, Opener
<1>13. ASSUME NEW g \in Gens, LinkLost(g) \/ CloseContext(g)
       PROVE  SessionInv'
  <2>1. /\ stage[g] = "up"
        /\ stage' = [stage EXCEPT ![g] = "mux"]
        /\ \E why \in Causes : cause' = [cause EXCEPT ![g] = why]
        /\ UNCHANGED <<client, closed, hid>>
    BY <1>13 DEF LinkLost, CloseContext, Shutdown, Causes
  <2> QED
    BY <2>1 DEF TypeOK, Opener
<1>14. ASSUME NEW g \in Gens,
              \/ SendHID(g) \/ Push(g) \/ FlushHID(g) \/ Flushed(g)
              \/ FlushWakes(g) \/ FlushFails(g) \/ Drain(g)
              \/ OnBufferedAmountLow(g)
       PROVE  SessionInv'
  <2>1. UNCHANGED <<client, stage, cause, closed>>
    BY <1>14 DEF SendHID, Push, FlushHID, Flushed, FlushWakes, FlushFails, Drain,
                 OnBufferedAmountLow
  <2>2. \A h \in Gens : hid'[h] # "idle" => hid[h] # "idle" \/ h \in returned
    BY <1>14 DEF TypeOK, SendHID, Push, FlushHID, Flushed, FlushWakes,
                 FlushFails, Drain, OnBufferedAmountLow
  <2>3. SenderKnown'
    BY <2>1, <2>2
  <2> QED
    BY <2>1, <2>3
<1>15. CASE UNCHANGED sessions
  BY <1>15 DEF sessions
<1>16. ASSUME NEW g \in Gens,
              \/ \E c \in Calls : AnswerPending(g, c)
              \/ \E request \in requests : Deliver(g, request)
              \/ HandOver(g)
       PROVE  UNCHANGED sessions
  BY <1>16 DEF sessions, AnswerPending, Deliver, HandOver
<1>17. ASSUME NEW c \in Calls,
              \/ \E g \in Gens : CallRPC(c, g)
              \/ CallStep(c) \/ SendFails(c) \/ Cancelled(c)
       PROVE  UNCHANGED sessions
  BY <1>17 DEF sessions, CallRPC, CallStep, Register, SendRequest, Receive,
               SendFails, Cancelled, GiveUp
<1>18. CASE UNCHANGED vars
  BY <1>18 DEF vars
<1> QED
  BY <1>1, <1>2, <1>3, <1>4, <1>5, <1>6, <1>7, <1>8, <1>9, <1>10, <1>11, <1>12,
     <1>13, <1>14, <1>15, <1>16, <1>17, <1>18
     DEF Next, Opening, ShutdownStep
-----------------------------------------------------------------------------
(* Calls.                                                                  *)

\* What the call half speaks of, besides returned.
calls == <<call, closed, nextID, pending, answering, hand, box, requests>>

\* A channel that shutdown has filled belongs to a call of a session.
LEMMA FilledHasSession ==
  ASSUME TypeOK, CallInv, NEW c \in Calls, box[c].what \in Causes
  PROVE  call[c].gen \in Gens /\ call[c].gen \in returned
<1>1. box[c] # Empty
  BY DEF Empty, Causes
<1> QED
  BY <1>1 DEF CallInv, CallKnown, TypeOK

\* rpcMux.close swaps the map.
LEMMA CloseMuxCalls ==
  ASSUME TypeOK, SessionInv, CallInv, NEW g \in Gens, CloseMux(g)
  PROVE  CallInv'
<1> USE DEF client, mux, channel
<1>1. cause[g] # "nil" /\ closed[g] = "nil"
  BY DEF CloseMux, SessionInv, Caused, Causes
<1>2. answering[g] = {}
  BY <1>1 DEF CallInv, InClose, TypeOK
<1>3. /\ closed' = [closed EXCEPT ![g] = cause[g]]
      /\ answering' = [answering EXCEPT ![g] = pending[g]]
      /\ pending' = [pending EXCEPT ![g] = {}]
      /\ UNCHANGED <<returned, call, nextID, hand, box, requests>>
  BY DEF CloseMux
<1>4. CallKnown' /\ IdBounded' /\ IdUnique' /\ RequestOf' /\ InHand'
  BY <1>3 DEF CallInv, CallKnown, IdBounded, IdUnique, RequestOf, InHand
<1>5. InMap' /\ InClose'
  BY <1>1, <1>3 DEF CallInv, InMap, InClose, TypeOK
<1>6. Somewhere'
  BY <1>2, <1>3 DEF CallInv, Somewhere, TypeOK
<1>7. InBox'
  BY <1>1, <1>3, FilledHasSession DEF CallInv, InBox, TypeOK
<1> QED
  BY <1>4, <1>5, <1>6, <1>7 DEF CallInv

\* rpcMux.close answers one call.
LEMMA AnswerPendingCalls ==
  ASSUME TypeOK, SessionInv, CallInv, NEW g \in Gens, NEW c \in Calls,
         AnswerPending(g, c)
  PROVE  CallInv'
<1> USE DEF client, mux, channel
<1> DEFINE m == [what |-> closed[g], of |-> "mux"]
<1>1. /\ c \in answering[g] /\ box[c] = Empty
      /\ box' = [box EXCEPT ![c] = m]
      /\ answering' = [answering EXCEPT ![g] = @ \ {c}]
      /\ UNCHANGED <<returned, call, closed, nextID, pending, hand, requests>>
  BY DEF AnswerPending
<1>2. m.what # "reply" /\ m # Empty
  <2>1. closed[g] \in Causes
    BY DEF AnswerPending, SessionInv, Caused, TypeOK
  <2> QED
    BY <2>1 DEF Causes, Empty
<1> HIDE DEF m
<1>3. /\ box'[c] = m
      /\ \A d \in Calls : d # c => box'[d] = box[d]
  BY <1>1 DEF TypeOK
<1>4. call[c].gen = g /\ call[c].pc \in {"send", "wait", "end"}
  BY <1>1 DEF CallInv, InClose
<1>5. /\ \A h \in Gens : c \notin pending[h]
      /\ \A h \in Gens : hand[h] # Empty => hand[h].to # c
  BY <1>1, <1>4 DEF CallInv, InMap, InClose, InHand
<1>6. CallKnown' /\ IdBounded' /\ IdUnique' /\ RequestOf'
  BY <1>1, <1>3, <1>4 DEF CallInv, CallKnown, IdBounded, IdUnique, RequestOf
<1>7. InMap'
  BY <1>1, <1>3, <1>5 DEF CallInv, InMap, TypeOK
<1>8. InClose'
  BY <1>1, <1>3, <1>4 DEF CallInv, InClose, TypeOK
<1>9. InHand'
  BY <1>1, <1>3, <1>5 DEF CallInv, InHand, TypeOK
<1>10. InBox'
  <2>1. closed[g] # "nil"
    BY <1>1 DEF CallInv, InClose
  <2> QED
    BY <1>1, <1>2, <1>3, <1>4, <2>1 DEF CallInv, InBox
<1>11. Somewhere'
  BY <1>1, <1>2, <1>3, <1>4 DEF CallInv, Somewhere, TypeOK
<1> QED
  BY <1>6, <1>7, <1>8, <1>9, <1>10, <1>11 DEF CallInv

\* rpcMux.deliver takes a channel out of the map.  The request it answers is
\* the call's own, because ids are unique.
LEMMA DeliverCalls ==
  ASSUME TypeOK, CallInv, NEW g \in Gens, NEW request \in requests,
         Deliver(g, request)
  PROVE  CallInv'
<1> USE DEF client, mux, channel
<1>1. PICK c \in pending[g] :
        /\ call[c].id = request.id
        /\ pending' = [pending EXCEPT ![g] = @ \ {c}]
        /\ hand' = [hand EXCEPT ![g] = [what |-> "reply", of |-> request.of,
                                        to |-> c]]
  BY DEF Deliver
<1>2. /\ hand[g] = Empty
      /\ UNCHANGED <<returned, call, closed, nextID, answering, box, requests>>
  BY DEF Deliver
<1>3. /\ c \in Calls /\ call[c].gen = g /\ call[c].pc \in {"send", "wait"}
      /\ call[c].id # <<0, 0>> /\ box[c] = Empty /\ c \notin answering[g]
  BY DEF CallInv, InMap, TypeOK
<1>4. request.of = c
  BY <1>1, <1>3 DEF CallInv, RequestOf, IdUnique, TypeOK
<1> DEFINE m == [what |-> "reply", of |-> request.of, to |-> c]
<1>5. m.of = c /\ m.to = c /\ m # Empty
  BY <1>4 DEF Empty
<1> HIDE DEF m
<1>6. hand'[g] = m /\ \A h \in Gens : h # g => hand'[h] = hand[h]
  BY <1>1 DEF TypeOK, m
<1>7. CallKnown' /\ IdBounded' /\ IdUnique' /\ RequestOf' /\ InBox'
  BY <1>2 DEF CallInv, CallKnown, IdBounded, IdUnique, RequestOf, InBox
<1>8. InMap'
  BY <1>1, <1>2, <1>5, <1>6 DEF CallInv, InMap, TypeOK
<1>9. InClose'
  BY <1>2, <1>3, <1>5, <1>6 DEF CallInv, InClose, TypeOK
<1>10. InHand'
  BY <1>2, <1>3, <1>5, <1>6 DEF CallInv, InHand, TypeOK
<1>11. Somewhere'
  BY <1>1, <1>2, <1>3, <1>5, <1>6 DEF CallInv, Somewhere, CallKnown, TypeOK
<1> QED
  BY <1>7, <1>8, <1>9, <1>10, <1>11 DEF CallInv

\* rpcMux.deliver sends what it holds.
LEMMA HandOverCalls ==
  ASSUME TypeOK, CallInv, NEW g \in Gens, HandOver(g)
  PROVE  CallInv'
<1> USE DEF client, mux, channel
<1> DEFINE c == hand[g].to
           m == [what |-> "reply", of |-> hand[g].of]
<1>1. /\ hand[g] # Empty /\ box[c] = Empty
      /\ box' = [box EXCEPT ![c] = m]
      /\ hand' = [hand EXCEPT ![g] = Empty]
      /\ UNCHANGED <<returned, call, closed, nextID, pending, answering, requests>>
  BY DEF HandOver
<1>2. /\ c \in Calls /\ hand[g].of = c /\ call[c].gen = g
      /\ call[c].pc \in {"send", "wait", "end"}
  BY <1>1 DEF CallInv, InHand, TypeOK
<1>3. /\ \A h \in Gens : c \notin pending[h] /\ c \notin answering[h]
      /\ \A h \in Gens : h # g /\ hand[h] # Empty => hand[h].to # c
  BY <1>1, <1>2 DEF CallInv, InMap, InClose, InHand
<1>4. m.of = c /\ m # Empty /\ m.what = "reply"
  BY <1>2 DEF Empty
<1> HIDE DEF m
<1>5. box'[c] = m /\ \A d \in Calls : d # c => box'[d] = box[d]
  BY <1>1, <1>2 DEF TypeOK
<1>6. hand'[g] = Empty /\ \A h \in Gens : h # g => hand'[h] = hand[h]
  BY <1>1 DEF TypeOK
<1> HIDE DEF c
<1>7. CallKnown' /\ IdBounded' /\ IdUnique' /\ RequestOf'
  BY <1>1, <1>2, <1>5 DEF CallInv, CallKnown, IdBounded, IdUnique, RequestOf
<1>8. InMap' /\ InClose'
  BY <1>1, <1>3, <1>5, <1>6 DEF CallInv, InMap, InClose, TypeOK
<1>9. InHand'
  BY <1>1, <1>3, <1>4, <1>5, <1>6 DEF CallInv, InHand, TypeOK
<1>10. Somewhere'
  <2> SUFFICES ASSUME NEW d \in Calls, call[d].pc \in {"send", "wait"}
               PROVE  \/ d \in pending[call[d].gen]
                      \/ d \in answering[call[d].gen]
                      \/ hand'[call[d].gen] # Empty /\ hand'[call[d].gen].to = d
                      \/ box'[d] # Empty
    BY <1>1 DEF Somewhere
  <2>1. CASE d = c
    BY <2>1, <1>4, <1>5
  <2>2. CASE d # c
    <3>1. call[d].gen = g => hand[g].to # d
      BY <2>2 DEF c
    <3>2. call[d].gen \in Gens
      BY DEF CallInv, CallKnown, TypeOK
    <3> QED
      BY <2>2, <3>1, <3>2, <1>5, <1>6 DEF CallInv, Somewhere
  <2> QED
    BY <2>1, <2>2
<1>11. InBox'
  BY <1>1, <1>4, <1>5 DEF CallInv, InBox, Causes
<1> QED
  BY <1>7, <1>8, <1>9, <1>10, <1>11 DEF CallInv

\* The record after CallRPC's checks, field by field.
LEMMA StartedCall ==
  ASSUME TypeOK, SessionInv, NEW c \in Calls, NEW g \in Gens, CallRPC(c, g)
  PROVE  /\ call'[c].gen = g /\ call'[c].id = call[c].id
         /\ call'[c].of = call[c].of
         /\ \/ call'[c].pc = "register" /\ call'[c].outcome = call[c].outcome
            \/ /\ call'[c].pc = "end" /\ PeerClosed(g)
               /\ call'[c].outcome \in Causes \cup {"unavailable"}
         /\ \A d \in Calls : d # c => call'[d] = call[d]
<1> DEFINE Started ==
      /\ call'[c].gen = g /\ call'[c].id = call[c].id
      /\ call'[c].of = call[c].of
      /\ \/ call'[c].pc = "register" /\ call'[c].outcome = call[c].outcome
         \/ /\ call'[c].pc = "end" /\ PeerClosed(g)
            /\ call'[c].outcome \in Causes \cup {"unavailable"}
      /\ \A d \in Calls : d # c => call'[d] = call[d]
<1>1. call[c] \in Call
  BY DEF TypeOK
<1>2. ASSUME NEW x \in Causes \cup {"unavailable"}, Refuse(c, g, x),
             PeerClosed(g)
      PROVE  Started
  <2> DEFINE o == [call[c] EXCEPT !.pc = "end", !.gen = g, !.outcome = x]
  <2>1. call' = [call EXCEPT ![c] = o]
    BY <1>2 DEF Refuse
  <2>2. /\ o.pc = "end" /\ o.gen = g /\ o.outcome = x
        /\ o.id = call[c].id /\ o.of = call[c].of
    BY <1>1 DEF Call
  <2> HIDE DEF o
  <2> QED
    BY <1>2, <2>1, <2>2 DEF TypeOK
<1>3. ASSUME call' = [call EXCEPT ![c].pc = "register", ![c].gen = g]
      PROVE  Started
  <2> DEFINE o == [call[c] EXCEPT !.pc = "register", !.gen = g]
  <2>1. call' = [call EXCEPT ![c] = o]
    BY <1>3
  <2>2. /\ o.pc = "register" /\ o.gen = g /\ o.outcome = call[c].outcome
        /\ o.id = call[c].id /\ o.of = call[c].of
    BY <1>1 DEF Call
  <2> HIDE DEF o
  <2> QED
    BY <2>1, <2>2 DEF TypeOK
<1>4. Done(g) => cause[g] \in Causes /\ PeerClosed(g)
  BY DEF SessionInv, Caused, Done, PeerClosed
<1> QED
  BY <1>2, <1>3, <1>4 DEF CallRPC

\* A call starts, or is refused on the spot.
LEMMA CallRPCCalls ==
  ASSUME TypeOK, SessionInv, CallInv, NEW c \in Calls, NEW g \in Gens,
         CallRPC(c, g)
  PROVE  CallInv'
<1> USE DEF client, mux, channel
<1>1. /\ call[c].pc = "idle" /\ g \in returned
      /\ UNCHANGED <<returned, closed, nextID, pending, answering, hand, box,
                     requests>>
  BY DEF CallRPC
<1>3. /\ call'[c].gen = g /\ call'[c].id = call[c].id
      /\ call'[c].of = call[c].of
      /\ \/ call'[c].pc = "register" /\ call'[c].outcome = call[c].outcome
         \/ call'[c].pc = "end" /\ call'[c].outcome # "reply"
      /\ \A d \in Calls : d # c => call'[d] = call[d]
  BY StartedCall DEF Causes
<1>4. call[c].id = <<0, 0>> /\ box[c] = Empty /\ call[c].outcome = "none"
  BY <1>1 DEF CallInv, CallKnown
<1>5. \A h \in Gens : /\ c \notin pending[h] /\ c \notin answering[h]
                      /\ hand[h] # Empty => hand[h].to # c
  BY <1>1 DEF CallInv, InMap, InClose, InHand
<1>6. CallKnown'
  BY <1>1, <1>3, <1>4 DEF CallInv, CallKnown, TypeOK, Gens
<1>7. IdBounded' /\ IdUnique'
  BY <1>1, <1>3, <1>4 DEF CallInv, IdBounded, IdUnique
<1>8. RequestOf'
  BY <1>1, <1>3 DEF CallInv, RequestOf, TypeOK
<1>9. InMap' /\ InClose'
  BY <1>1, <1>3, <1>5 DEF CallInv, InMap, InClose, TypeOK
<1>10. InHand'
  BY <1>1, <1>3, <1>5 DEF CallInv, InHand, TypeOK
<1>11. Somewhere'
  BY <1>1, <1>3 DEF CallInv, Somewhere
<1>12. InBox'
  BY <1>1, <1>3, <1>4 DEF CallInv, InBox, Empty, Causes
<1> QED
  BY <1>6, <1>7, <1>8, <1>9, <1>10, <1>11, <1>12 DEF CallInv

\* A call leaves with an outcome that is its own reply or no reply; whoever
\* had its channel may keep it, but the map forgets it.
LEMMA FinishCalls ==
  ASSUME TypeOK, CallInv, NEW c \in Calls, NEW x \in Outcomes,
         NEW d \in Calls \cup {"mux"}, Finish(c, x, d),
         x = "reply" => d = c,
         call[c].pc \in {"register", "send", "wait"},
         pending' = [pending EXCEPT ![call[c].gen] = @ \ {c}],
         UNCHANGED <<returned, closed, nextID, answering, hand, box, requests>>
  PROVE  CallInv'
<1>1. /\ \A e \in Calls : e # c => call'[e] = call[e]
      /\ call'[c].pc = "end" /\ call'[c].outcome = x /\ call'[c].of = d
      /\ call'[c].gen = call[c].gen /\ call'[c].id = call[c].id
  BY FinishedCall DEF TypeOK
<1>2. call[c].gen \in Gens
  BY DEF CallInv, CallKnown, TypeOK
<1>3. \A h \in Gens : c \notin pending'[h] /\ pending'[h] \subseteq pending[h]
  BY <1>2 DEF CallInv, InMap, TypeOK
<1>4. \A h \in Gens : \A e \in pending[h] : e # c => e \in pending'[h]
  BY <1>2 DEF TypeOK
<1>5. CallKnown' /\ IdBounded' /\ IdUnique' /\ InBox'
  BY <1>1, <1>2 DEF CallInv, CallKnown, IdBounded, IdUnique, InBox, Gens
<1>6. RequestOf'
  BY <1>1 DEF CallInv, RequestOf, TypeOK
<1>7. InMap' /\ InClose'
  <2>1. InMap'
    <3> SUFFICES ASSUME NEW h \in Gens, NEW e \in pending'[h]
                 PROVE  /\ call'[e].gen = h /\ call'[e].pc \in {"send", "wait"}
                        /\ call'[e].id # <<0, 0>>
                        /\ box[e] = Empty /\ closed[h] = "nil"
                        /\ e \notin answering[h]
                        /\ hand[h] # Empty => hand[h].to # e
      BY DEF InMap
    <3>1. e \in pending[h] /\ e # c /\ e \in Calls
      BY <1>3 DEF TypeOK
    <3> QED
      BY <1>1, <3>1 DEF CallInv, InMap
  <2>2. InClose'
    BY <1>1 DEF CallInv, InClose, TypeOK
  <2> QED
    BY <2>1, <2>2
<1>8. InHand'
  BY <1>1 DEF CallInv, InHand, TypeOK
<1>9. Somewhere'
  BY <1>1, <1>4 DEF CallInv, Somewhere, CallKnown, TypeOK
<1> QED
  BY <1>5, <1>6, <1>7, <1>8, <1>9 DEF CallInv

\* rpcMux.register gives out an id no call has.
LEMMA RegisterCalls ==
  ASSUME TypeOK, SessionInv, CallInv, NEW c \in Calls, Register(c)
  PROVE  CallInv'
<1> USE DEF client, mux, channel
<1> DEFINE g == call[c].gen
<1>1. /\ call[c].pc = "register" /\ g \in Gens /\ call[c] \in Call
      /\ g \in Nat /\ g > 0
  BY DEF Register, CallInv, CallKnown, TypeOK, Gens
<1>2. \A h \in Gens : /\ c \notin pending[h] /\ c \notin answering[h]
                      /\ hand[h] # Empty => hand[h].to # c
  BY <1>1 DEF CallInv, InMap, InClose, InHand
<1>3. CASE closed[g] # "nil"
  <2>1. closed[g] \in Outcomes /\ closed[g] # "reply"
    BY <1>1, <1>3 DEF TypeOK, Outcomes, Causes
  <2>2. pending' = [pending EXCEPT ![g] = @ \ {c}]
    BY <1>1, <1>2, <1>3 DEF Register, TypeOK
  <2>3. /\ Finish(c, closed[g], "mux")
        /\ UNCHANGED <<returned, closed, nextID, answering, hand, box, requests>>
    BY <1>3 DEF Register
  <2> QED
    BY <1>1, <2>1, <2>2, <2>3, FinishCalls
<1>4. CASE closed[g] = "nil"
  <2> DEFINE i == <<g, nextID[g] + 1>>
             o == [call[c] EXCEPT !.pc = "send", !.id = i]
  <2>1. /\ nextID' = [nextID EXCEPT ![g] = @ + 1]
        /\ pending' = [pending EXCEPT ![g] = @ \cup {c}]
        /\ call' = [call EXCEPT ![c] = o]
        /\ UNCHANGED <<returned, closed, answering, hand, box, requests>>
    BY <1>4 DEF Register
  <2>2. /\ o.pc = "send" /\ o.id = i /\ o.gen = g
        /\ o.outcome = call[c].outcome /\ o.of = call[c].of
    BY <1>1 DEF Call
  <2> HIDE DEF o
  <2>3. call'[c] = o /\ \A d \in Calls : d # c => call'[d] = call[d]
    BY <2>1 DEF TypeOK
  <2>4. box[c] = Empty /\ call[c].outcome = "none" /\ call[c].id = <<0, 0>>
    BY <1>1 DEF CallInv, CallKnown
  <2>5. /\ nextID[g] \in Nat /\ nextID'[g] = nextID[g] + 1
        /\ \A h \in Gens : nextID[h] \in Nat /\ nextID[h] <= nextID'[h]
    BY <1>1, <2>1 DEF TypeOK
  <2>6. i # <<0, 0>>
    BY <1>1
  <2>7. \A d \in Calls : d # c => call[d].id # i
    BY <2>5, <2>6 DEF CallInv, IdBounded
  <2>8. CallKnown'
    BY <1>1, <2>1, <2>2, <2>3, <2>4 DEF CallInv, CallKnown
  <2>9. IdBounded'
    <3> SUFFICES ASSUME NEW d \in Calls
                 PROVE  \/ call'[d].id = <<0, 0>>
                        \/ \E n \in Nat : /\ call'[d].id = <<call'[d].gen, n>>
                                          /\ n >= 1
                                          /\ n <= nextID'[call'[d].gen]
      BY DEF IdBounded
    <3>1. CASE d = c
      BY <2>2, <2>3, <2>5, <3>1
    <3>2. CASE d # c /\ call[d].id # <<0, 0>>
      <4>1. PICK n \in Nat : /\ call[d].id = <<call[d].gen, n>>
                             /\ n >= 1 /\ n <= nextID[call[d].gen]
        BY <3>2 DEF CallInv, IdBounded
      <4>2. call[d].gen \in Gens
        BY <3>2 DEF CallInv, CallKnown, TypeOK
      <4>3. n <= nextID'[call[d].gen]
        BY <2>1, <2>5, <4>1, <4>2 DEF TypeOK
      <4> QED
        BY <2>3, <3>2, <4>1, <4>3
    <3>3. CASE d # c /\ call[d].id = <<0, 0>>
      BY <2>3, <3>3
    <3> QED
      BY <3>1, <3>2, <3>3
  <2> HIDE DEF i
  <2>10. IdUnique'
    BY <2>2, <2>3, <2>7 DEF CallInv, IdUnique
  <2>11. RequestOf'
    BY <1>1, <2>1, <2>3 DEF CallInv, RequestOf, TypeOK
  <2>12. InMap'
    <3> SUFFICES ASSUME NEW h \in Gens, NEW e \in pending'[h]
                 PROVE  /\ call'[e].gen = h /\ call'[e].pc \in {"send", "wait"}
                        /\ call'[e].id # <<0, 0>>
                        /\ box[e] = Empty /\ closed[h] = "nil"
                        /\ e \notin answering[h]
                        /\ hand[h] # Empty => hand[h].to # e
      BY <2>1 DEF InMap
    <3>1. e \in Calls /\ (e \in pending[h] \/ (e = c /\ h = g))
      BY <1>1, <2>1 DEF TypeOK
    <3>2. CASE e = c
      BY <1>2, <1>4, <2>2, <2>3, <2>4, <2>6, <3>1, <3>2
    <3>3. CASE e # c
      BY <2>3, <3>1, <3>3 DEF CallInv, InMap
    <3> QED
      BY <3>2, <3>3
  <2>13. InClose' /\ InBox'
    BY <1>2, <2>1, <2>2, <2>3 DEF CallInv, InClose, InBox, TypeOK
  <2>14. InHand'
    BY <1>2, <2>1, <2>3 DEF CallInv, InHand, TypeOK
  <2>15. Somewhere'
    BY <1>1, <2>1, <2>2, <2>3 DEF CallInv, Somewhere, CallKnown, TypeOK
  <2> QED
    BY <2>8, <2>9, <2>10, <2>11, <2>12, <2>13, <2>14, <2>15 DEF CallInv
<1> QED
  BY <1>3, <1>4

\* The request goes out.
LEMMA SendRequestCalls ==
  ASSUME TypeOK, CallInv, NEW c \in Calls, SendRequest(c)
  PROVE  CallInv'
<1> USE DEF client, mux, channel
<1> DEFINE o == [call[c] EXCEPT !.pc = "wait"]
           r == [id |-> call[c].id, of |-> c]
<1>1. /\ call[c].pc = "send" /\ call' = [call EXCEPT ![c] = o]
      /\ requests' = requests \cup {r}
      /\ UNCHANGED <<returned, closed, nextID, pending, answering, hand, box>>
  BY DEF SendRequest
<1>2. /\ o.pc = "wait" /\ o.id = call[c].id /\ o.gen = call[c].gen
      /\ o.outcome = call[c].outcome /\ o.of = call[c].of
  BY DEF Call, TypeOK
<1>3. r.id = call[c].id /\ r.of = c
  OBVIOUS
<1> HIDE DEF o, r
<1>4. call'[c] = o /\ \A d \in Calls : d # c => call'[d] = call[d]
  BY <1>1 DEF TypeOK
<1>5. CallKnown' /\ IdBounded' /\ IdUnique' /\ InBox'
  BY <1>1, <1>2, <1>4
     DEF CallInv, CallKnown, IdBounded, IdUnique, InBox
<1>6. RequestOf'
  BY <1>1, <1>2, <1>3, <1>4 DEF CallInv, RequestOf, TypeOK
<1>7. InMap' /\ InClose'
  BY <1>1, <1>2, <1>4, SMTT(30) DEF CallInv, InMap, InClose, TypeOK
<1>8. InHand'
  BY <1>1, <1>2, <1>4 DEF CallInv, InHand, TypeOK
<1>9. Somewhere'
  BY <1>1, <1>2, <1>4 DEF CallInv, Somewhere
<1> QED
  BY <1>5, <1>6, <1>7, <1>8, <1>9 DEF CallInv

LEMMA CallsStep ==
  ASSUME TypeOK, SessionInv, CallInv, [Next]_vars
  PROVE  CallInv'
<1> USE DEF client, mux, channel
<1>1. ASSUME UNCHANGED calls, returned \subseteq returned'
      PROVE  CallInv'
  BY <1>1 DEF calls, CallInv, CallKnown, IdBounded, IdUnique, RequestOf, InMap,
              InClose, InHand, InBox, Somewhere
<1>2. CASE OpenSession \/ Opening
  <2>1. UNCHANGED calls
    BY <1>2 DEF calls, OpenSession, Opening, Build, DialFails, Ready,
                NegotiationFails, Abandoned, Install, FencePrevious, Return
  <2>2. returned \subseteq returned'
    BY <1>2 DEF OpenSession, Opening, Build, DialFails, Ready,
                NegotiationFails, Abandoned, Install, FencePrevious, Return
  <2> QED
    BY <1>1, <2>1, <2>2
<1>3. ASSUME NEW g \in Gens, ShutdownStep(g)
      PROVE  CallInv'
  <2>1. CASE Proceed(g) \/ ClearActive(g)
    BY <1>1, <2>1 DEF calls, Proceed, ClearActive
  <2> QED
    BY <1>3, <2>1, CloseMuxCalls, AnswerPendingCalls DEF ShutdownStep
<1>4. ASSUME NEW g \in Gens,
             \/ LinkLost(g) \/ CloseContext(g)
             \/ SendHID(g) \/ Push(g) \/ FlushHID(g) \/ Flushed(g)
             \/ FlushWakes(g) \/ FlushFails(g) \/ Drain(g)
             \/ OnBufferedAmountLow(g)
      PROVE  CallInv'
  <2>1. UNCHANGED <<calls, returned>>
    BY <1>4 DEF calls, LinkLost, CloseContext, SendHID, Push, FlushHID, Flushed,
                FlushWakes, FlushFails, Drain, OnBufferedAmountLow
  <2> QED
    BY <1>1, <2>1
<1>5. ASSUME NEW c \in Calls, SendFails(c) \/ Cancelled(c)
      PROVE  CallInv'
  <2>1. PICK error \in Errors : GiveUp(c, error)
    BY <1>5 DEF SendFails, Cancelled, Errors
  <2>2. error \in Outcomes /\ error # "reply"
    BY DEF Outcomes, Errors
  <2>3. call[c].pc \in {"send", "wait"}
    BY <1>5 DEF SendFails, Cancelled
  <2> QED
    BY <2>1, <2>2, <2>3, FinishCalls DEF GiveUp
<1>6. ASSUME NEW c \in Calls, Receive(c)
      PROVE  CallInv'
  <2>1. /\ box[c].what \in Outcomes /\ box[c].of \in Calls \cup {"mux"}
        /\ box[c].what = "reply" => box[c].of = c
    BY <1>6 DEF TypeOK, Receive, Message, Outcomes, CallInv, InBox
  <2> QED
    BY <1>6, <2>1, FinishCalls DEF Receive
<1>7. CASE UNCHANGED vars
  BY <1>1, <1>7 DEF vars, calls
<1> QED
  BY <1>2, <1>3, <1>4, <1>5, <1>6, <1>7, CallRPCCalls, RegisterCalls,
     SendRequestCalls, DeliverCalls, HandOverCalls
     DEF Next, CallStep
-----------------------------------------------------------------------------
(* Theorems.                                                               *)

LEMMA InvInit == ASSUME Init PROVE Inv
<1> USE MaxGenAssumption, MaxQueueAssumption
<1>1. TypeOK
  BY DEF Init, TypeOK, Opener, Stages, Call, NoCall, Outcomes, Ids
<1>2. SessionInv
  BY DEF Init, SessionInv, OpenerNewest, ReturnedBuilt, Ahead,
         ActiveWhileSwapping, Tracked, TrackedNewest, Caused, SenderKnown,
         Swapping
<1>3. CallInv
  BY DEF Init, CallInv, CallKnown, IdBounded, IdUnique, RequestOf, InMap, InClose,
         InHand, InBox, Somewhere, NoCall, Empty, Causes
<1> QED
  BY <1>1, <1>2, <1>3 DEF Inv

\* The inductive invariant holds throughout.
THEOREM InvHolds == Spec => []Inv
<1>1. Inv /\ [Next]_vars => Inv'
  BY TypeStep, SessionStep, CallsStep DEF Inv, SessionInv, CallInv
<1> QED
  BY InvInit, <1>1, PTL DEF Spec

\* Every variable keeps its type: an outcome that a call is given is one that
\* CallRPC can return (Session.CallRPC, Session.shutdown).
THEOREM TypeCorrect == Spec => []TypeOK
<1>1. Inv => TypeOK
  BY DEF Inv
<1> QED
  BY <1>1, InvHolds, PTL

\* However many sessions, calls and replays: a reply returned is the call's own
\* (rpcMux.deliver).
THEOREM RepliesAreOwn == Spec => []OwnReply
<1>1. Inv => OwnReply
  BY DEF Inv, CallInv, CallKnown, OwnReply
<1> QED
  BY <1>1, InvHolds, PTL

\* No delivery and no shutdown blocks on a result channel (rpcMux.deliver,
\* rpcMux.close).
THEOREM SendsNeverBlock == Spec => []SendersHaveRoom
<1>1. Inv => SendersHaveRoom
  BY DEF Inv, TypeOK, CallInv, InClose, InHand, SendersHaveRoom
<1> QED
  BY <1>1, InvHolds, PTL

\* No waiting call is forgotten by shutdown, and none that returned is kept
\* (rpcMux.close, CallRPC's calls of remove).
THEOREM NoCallForgotten == Spec => []CallsHaveAnAnswerer
<1>1. Inv => CallsHaveAnAnswerer
  <2> SUFFICES ASSUME Inv, NEW c \in Calls
               PROVE  /\ call[c].pc = "wait" =>
                           \/ /\ c \in pending[call[c].gen]
                              /\ closed[call[c].gen] = "nil"
                           \/ c \in answering[call[c].gen]
                           \/ /\ hand[call[c].gen] # Empty
                              /\ hand[call[c].gen].to = c
                           \/ box[c] # Empty
                      /\ call[c].pc = "end" =>
                           \A h \in Gens : c \notin pending[h]
    BY DEF CallsHaveAnAnswerer
  <2>1. call[c].pc = "wait" => call[c].gen \in Gens
    BY DEF Inv, CallInv, CallKnown, TypeOK
  <2> QED
    BY <2>1 DEF Inv, CallInv, Somewhere, InMap
<1> QED
  BY <1>1, InvHolds, PTL

\* A living session that was handed out is the client's active one, or about to
\* be fenced (Client.OpenSession, Session.shutdown).
THEOREM LivingSessionTracked == Spec => []LiveIsActive
<1>1. Inv => LiveIsActive
  <2> SUFFICES ASSUME Inv, NEW g \in returned, stage[g] = "up"
               PROVE  active = g \/ (opener.pc = "fence" /\ opener.previous = g)
    BY DEF LiveIsActive
  <2>1. g \in Gens /\ g # 0
    BY DEF Inv, TypeOK, Gens
  <2> QED
    BY <2>1 DEF Inv, SessionInv, Tracked, Caused, Swapping
<1> QED
  BY <1>1, InvHolds, PTL

\* A session handed out and not fenced is the newest one handed out.
LEMMA UnfencedNewest ==
  ASSUME Inv, NEW g \in returned, stage[g] # "end", NEW h \in returned
  PROVE  h <= g
<1>1. g # 0
  BY DEF Inv, TypeOK, Gens
<1> QED
  BY <1>1 DEF Inv, SessionInv, Tracked, TrackedNewest

\* No request and no report goes out on a session once a newer one has been
\* returned (Client.OpenSession fences before it returns).
THEOREM TrafficFenced == Spec => FencedTraffic
<1> USE MaxGenAssumption, MaxQueueAssumption DEF client, mux, channel
<1> DEFINE Sent(g) == \/ queued'[g] > queued[g]
                      \/ \E request \in requests' \ requests :
                           request.id[1] = g
<1>1. ASSUME Inv, [Next]_vars, NEW g \in Gens, Sent(g), NEW h \in returned
      PROVE  h <= g
  <2>1. g \in returned /\ ~PeerClosed(g)
    <3>1. CASE \E c \in Calls : SendRequest(c)
      <4>1. PICK c \in Calls : SendRequest(c)
        BY <3>1
      <4> DEFINE r == [id |-> call[c].id, of |-> c]
      <4>2. /\ call[c].pc = "send" /\ ~PeerClosed(call[c].gen)
            /\ UNCHANGED queued
            /\ requests' = requests \cup {r}
        BY <4>1 DEF SendRequest
      <4>3. \E n \in Nat : call[c].id = <<call[c].gen, n>>
        BY <1>1, <4>2 DEF Inv, CallInv, CallKnown, IdBounded
      <4>4. call[c].gen \in returned
        BY <1>1, <4>2 DEF Inv, CallInv, CallKnown
      <4>5. r.id[1] = call[c].gen
        BY <4>3
      <4>6. ~(queued'[g] > queued[g])
        BY <1>1, <4>2 DEF Inv, TypeOK
      <4> HIDE DEF r
      <4>7. r.id[1] = g
        BY <1>1, <4>2, <4>6
      <4> QED
        BY <4>2, <4>4, <4>5, <4>7
    <3>2. ASSUME NEW k \in Gens, Push(k), queued'[k] # queued[k]
          PROVE  k \in returned /\ ~PeerClosed(k)
      BY <1>1, <3>2 DEF Push, Inv, SessionInv, SenderKnown, TypeOK
    <3>3. ASSUME NEW k \in Gens, Push(k)
          PROVE  g \in returned /\ ~PeerClosed(g)
      <4>1. UNCHANGED requests /\ \A j \in Gens : j # k => queued'[j] = queued[j]
        BY <1>1, <3>3 DEF Push, Inv, TypeOK
      <4>2. queued'[g] > queued[g]
        BY <1>1, <4>1
      <4>3. g = k /\ queued'[k] # queued[k]
        BY <1>1, <4>1, <4>2 DEF Inv, TypeOK
      <4> QED
        BY <3>2, <3>3, <4>3
    <3>4. ASSUME NEW k \in Gens, Drain(k)
          PROVE  FALSE
      <4>1. UNCHANGED requests /\ queued'[g] <= queued[g]
        BY <1>1, <3>4 DEF Drain, Inv, TypeOK
      <4>2. ~(queued'[g] > queued[g])
        BY <1>1, <3>4, <4>1 DEF Inv, TypeOK, Drain
      <4> QED
        BY <1>1, <4>1, <4>2
    <3>5. ASSUME UNCHANGED <<queued, requests>>
          PROVE  FALSE
      BY <1>1, <3>5 DEF Inv, TypeOK
    <3>6. CASE OpenSession \/ Opening \/ UNCHANGED vars
      BY <3>5, <3>6 DEF OpenSession, Opening, Build, DialFails, Ready,
                        NegotiationFails, Abandoned, Install, FencePrevious,
                        Return, vars
    <3>7. ASSUME NEW k \in Gens,
                 \/ ShutdownStep(k) \/ LinkLost(k) \/ CloseContext(k)
                 \/ \E request \in requests : Deliver(k, request)
                 \/ HandOver(k) \/ SendHID(k) \/ FlushHID(k) \/ Flushed(k)
                 \/ FlushWakes(k) \/ FlushFails(k) \/ OnBufferedAmountLow(k)
          PROVE  FALSE
      BY <3>5, <3>7 DEF ShutdownStep, CloseMux, AnswerPending, Proceed,
           ClearActive, LinkLost, CloseContext, Deliver, HandOver, SendHID,
           FlushHID, Flushed, FlushWakes, FlushFails, OnBufferedAmountLow
    <3>8. ASSUME NEW c \in Calls,
                 \/ \E k \in Gens : CallRPC(c, k)
                 \/ Register(c) \/ Receive(c) \/ SendFails(c) \/ Cancelled(c)
          PROVE  FALSE
      BY <3>5, <3>8 DEF CallRPC, Register, Receive, SendFails, Cancelled, GiveUp
    <3> QED
      BY <1>1, <3>1, <3>3, <3>4, <3>6, <3>7, <3>8 DEF Next, CallStep
  <2>2. stage[g] # "end"
    BY <2>1 DEF PeerClosed
  <2> QED
    BY <1>1, <2>1, <2>2, UnfencedNewest
<1>2. Inv /\ [Next]_vars => \A g \in Gens : Sent(g) => \A h \in returned : h <= g
  BY <1>1
<1>3. Inv /\ [Next]_vars
        => [\A g \in Gens : Sent(g) => \A h \in returned : h <= g]_vars
  BY <1>2
<1> QED
  BY <1>3, InvHolds, PTL DEF Spec, FencedTraffic

\* A flusher that waits on a living channel is woken, however the callback, the
\* token and the reports come to lie (FlushHID, OnBufferedAmountLow).
THEOREM FlushersWake == Spec => []NoLostWakeup
<1> USE MaxQueueAssumption DEF client, mux, channel
<1>1. Init => NoLostWakeup
  BY DEF Init, NoLostWakeup
<1>2. ASSUME TypeOK, NoLostWakeup, [Next]_vars
      PROVE  NoLostWakeup'
  <2>1. ASSUME UNCHANGED channel
        PROVE  NoLostWakeup'
    BY <1>2, <2>1 DEF NoLostWakeup
  <2>2. ASSUME NEW g \in Gens,
               \/ SendHID(g) \/ Push(g) \/ FlushHID(g) \/ Flushed(g)
               \/ FlushWakes(g) \/ FlushFails(g)
        PROVE  NoLostWakeup'
    BY <1>2, <2>2 DEF SendHID, Push, FlushHID, Flushed, FlushWakes, FlushFails,
                      NoLostWakeup, TypeOK
  <2>3. ASSUME NEW g \in Gens, Drain(g) \/ OnBufferedAmountLow(g)
        PROVE  NoLostWakeup'
    <3>1. CASE Drain(g)
      <4>1. /\ UNCHANGED <<hid, token>>
            /\ \A h \in Gens : h # g => /\ queued'[h] = queued[h]
                                        /\ low'[h] <=> low[h]
        BY <1>2, <3>1 DEF Drain, TypeOK
      <4>2. queued[g] # 1 => queued'[g] > 0
        BY <1>2, <3>1 DEF Drain, TypeOK
      <4>3. queued[g] = 1 => low'[g]
        BY <1>2, <3>1, Zenon DEF Drain, TypeOK
      <4> QED
        BY <1>2, <4>1, <4>2, <4>3 DEF NoLostWakeup
    <3>2. CASE OnBufferedAmountLow(g)
      BY <1>2, <3>2 DEF OnBufferedAmountLow, NoLostWakeup, TypeOK
    <3> QED
      BY <2>3, <3>1, <3>2
  <2>4. CASE OpenSession \/ Opening \/ UNCHANGED vars
    BY <2>1, <2>4 DEF OpenSession, Opening, Build, DialFails, Ready,
                      NegotiationFails, Abandoned, Install, FencePrevious,
                      Return, vars
  <2>5. ASSUME NEW g \in Gens,
               \/ ShutdownStep(g) \/ LinkLost(g) \/ CloseContext(g)
               \/ \E request \in requests : Deliver(g, request)
               \/ HandOver(g)
        PROVE  NoLostWakeup'
    BY <2>1, <2>5 DEF ShutdownStep, CloseMux, AnswerPending, Proceed, ClearActive,
                      LinkLost, CloseContext, Deliver, HandOver
  <2>6. ASSUME NEW c \in Calls,
               \/ \E g \in Gens : CallRPC(c, g)
               \/ CallStep(c) \/ SendFails(c) \/ Cancelled(c)
        PROVE  NoLostWakeup'
    BY <2>1, <2>6 DEF CallRPC, CallStep, Register, SendRequest, Receive,
                      SendFails, Cancelled, GiveUp
  <2> QED
    BY <1>2, <2>2, <2>3, <2>4, <2>5, <2>6 DEF Next
<1> QED
  BY <1>1, <1>2, TypeCorrect, PTL DEF Spec
-----------------------------------------------------------------------------
(* Refinement.                                                             *)

\* A step of the abstract variables, the mapping spelled out.
Mapped == <<returned, [g \in Gens |-> StatusOf(g)],
            [c \in Calls |-> FateOf(c)], [c \in Calls |-> call[c].gen]>>

\* What leaves stages, calls and returned alone is a stutter.
LEMMA Stutter ==
  ASSUME UNCHANGED <<returned, stage, call>>
  PROVE  UNCHANGED Mapped
BY DEF Mapped, StatusOf, FateOf

\* A step of shutdown is a stutter, an end or a fence.
LEMMA StageMaps ==
  ASSUME TypeOK, NEW g \in Gens, NEW s \in Stages,
         stage' = [stage EXCEPT ![g] = s], UNCHANGED <<returned, call>>
  PROVE  /\ StatusOf(g) = "open" /\ StatusOf(g)' = "ending" => Promise!End(g)
         /\ StatusOf(g) = "ending" /\ StatusOf(g)' = "fenced"
              => Promise!Fence(g)
         /\ StatusOf(g)' = StatusOf(g) => UNCHANGED Mapped
<1>1. \A h \in Gens : h # g => StatusOf(h)' = StatusOf(h)
  BY DEF TypeOK, StatusOf
<1>2. UNCHANGED <<[c \in Calls |-> FateOf(c)], [c \in Calls |-> call[c].gen]>>
  BY DEF FateOf
<1> HIDE DEF StatusOf
<1>3. [h \in Gens |-> StatusOf(h)']
        = [[h \in Gens |-> StatusOf(h)] EXCEPT ![g] = StatusOf(g)']
  BY <1>1
<1> QED
  BY <1>2, <1>3 DEF Promise!End, Promise!Fence, Mapped

\* A step of one call, once its session is known, is a step of its fate.
LEMMA FateMaps ==
  ASSUME TypeOK, NEW c \in Calls, UNCHANGED <<returned, stage>>,
         \A d \in Calls : d # c => call'[d] = call[d],
         call' \in [Calls -> Call]
  PROVE  /\ [d \in Calls |-> FateOf(d)']
              = [[d \in Calls |-> FateOf(d)] EXCEPT ![c] = FateOf(c)']
         /\ [d \in Calls |-> call'[d].gen]
              = [[d \in Calls |-> call[d].gen] EXCEPT ![c] = call'[c].gen]
         /\ UNCHANGED <<returned, [g \in Gens |-> StatusOf(g)]>>
<1>1. \A d \in Calls : d # c => FateOf(d)' = FateOf(d)
  BY DEF FateOf
<1>2. UNCHANGED [g \in Gens |-> StatusOf(g)]
  BY DEF StatusOf
<1> HIDE DEF FateOf
<1> QED
  BY <1>1, <1>2

\* Shutdown by anyone ends a session that is up, and is a stutter otherwise.
LEMMA ShutdownMaps ==
  ASSUME TypeOK, NEW g \in Gens, NEW why \in Causes, Shutdown(g, why),
         UNCHANGED <<returned, call>>
  PROVE  Promise!Next \/ UNCHANGED Mapped
<1>1. CASE stage[g] = "up"
  <2>1. stage' = [stage EXCEPT ![g] = "mux"] /\ "mux" \in Stages
    BY <1>1 DEF Shutdown, Stages
  <2>2. StatusOf(g) = "open" /\ StatusOf(g)' = "ending"
    BY <1>1, <2>1 DEF StatusOf, TypeOK
  <2>3. Promise!End(g)
    BY <2>1, <2>2, StageMaps
  <2> QED
    BY <2>3 DEF Promise!Next
<1>2. CASE stage[g] # "up"
  BY <1>2, Stutter DEF Shutdown
<1> QED
  BY <1>1, <1>2

\* A step of a call that has its session, by what becomes of its fate.
LEMMA CallMaps ==
  ASSUME TypeOK, TypeOK', NEW c \in Calls, NEW g \in Gens, call[c].gen = g,
         UNCHANGED <<returned, stage>>, call'[c].gen = g,
         \A d \in Calls : d # c => call'[d] = call[d]
  PROVE  /\ FateOf(c)' = FateOf(c) => UNCHANGED Mapped
         /\ FateOf(c) = "asked" /\ FateOf(c)' = "sent"
              /\ StatusOf(g) # "fenced" /\ (\A h \in returned : h <= g)
              => Promise!Send(c)
         /\ FateOf(c) = "sent" /\ FateOf(c)' = "replied" => Promise!Reply(c)
         /\ FateOf(c) \in {"asked", "sent"} /\ FateOf(c)' = "ended"
              /\ StatusOf(g) # "open"
              => Promise!Ended(c)
         /\ FateOf(c) \in {"asked", "sent"} /\ FateOf(c)' = "failed"
              => Promise!Fail(c)
<1>1. /\ [d \in Calls |-> FateOf(d)']
           = [[d \in Calls |-> FateOf(d)] EXCEPT ![c] = FateOf(c)']
      /\ [d \in Calls |-> call'[d].gen]
           = [[d \in Calls |-> call[d].gen] EXCEPT ![c] = call'[c].gen]
      /\ UNCHANGED <<returned, [h \in Gens |-> StatusOf(h)]>>
  BY FateMaps DEF TypeOK
<1>2. UNCHANGED [d \in Calls |-> call[d].gen]
  BY <1>1
<1> HIDE DEF FateOf, StatusOf
<1>3. /\ [h \in Gens |-> StatusOf(h)][[d \in Calls |-> call[d].gen][c]]
           = StatusOf(g)
      /\ [d \in Calls |-> call[d].gen][c] = g
      /\ [d \in Calls |-> FateOf(d)][c] = FateOf(c)
  OBVIOUS
<1>4. ASSUME FateOf(c)' = FateOf(c)
      PROVE  UNCHANGED Mapped
  <2>1. UNCHANGED [d \in Calls |-> FateOf(d)]
    BY <1>1, <1>4
  <2> QED
    BY <1>1, <1>2, <2>1 DEF Mapped
<1>5. ASSUME FateOf(c) = "asked", FateOf(c)' = "sent",
             StatusOf(g) # "fenced", \A h \in returned : h <= g
      PROVE  Promise!Send(c)
  BY <1>1, <1>2, <1>3, <1>5 DEF Promise!Send
<1>6. ASSUME FateOf(c) = "sent", FateOf(c)' = "replied"
      PROVE  Promise!Reply(c)
  BY <1>1, <1>2, <1>3, <1>6 DEF Promise!Reply
<1>7. ASSUME FateOf(c) \in {"asked", "sent"}, FateOf(c)' = "ended",
             StatusOf(g) # "open"
      PROVE  Promise!Ended(c)
  BY <1>1, <1>2, <1>3, <1>7 DEF Promise!Ended
<1>8. ASSUME FateOf(c) \in {"asked", "sent"}, FateOf(c)' = "failed"
      PROVE  Promise!Fail(c)
  BY <1>1, <1>2, <1>3, <1>8 DEF Promise!Fail
<1> QED
  BY <1>4, <1>5, <1>6, <1>7, <1>8

\* The record of a call that goes on, field by field.
LEMMA AdvancedCall ==
  ASSUME call \in [Calls -> Call], NEW c \in Calls,
         \/ SendRequest(c)
         \/ Register(c) /\ closed[call[c].gen] = "nil"
  PROVE  /\ SendRequest(c) => call'[c].pc = "wait"
         /\ ~SendRequest(c) => call'[c].pc = "send"
         /\ call'[c].gen = call[c].gen
         /\ \A d \in Calls : d # c => call'[d] = call[d]
<1>1. call[c] \in Call
  OBVIOUS
<1>2. ASSUME NEW o, call' = [call EXCEPT ![c] = o]
      PROVE  call'[c] = o /\ \A d \in Calls : d # c => call'[d] = call[d]
  BY <1>2
<1>3. CASE SendRequest(c)
  <2> DEFINE o == [call[c] EXCEPT !.pc = "wait"]
  <2>1. call' = [call EXCEPT ![c] = o]
    BY <1>3 DEF SendRequest
  <2>2. o.pc = "wait" /\ o.gen = call[c].gen
    BY <1>1 DEF Call
  <2> HIDE DEF o
  <2> QED
    BY <1>2, <1>3, <2>1, <2>2
<1>4. CASE Register(c) /\ closed[call[c].gen] = "nil"
  <2> DEFINE i == <<call[c].gen, nextID[call[c].gen] + 1>>
             o == [call[c] EXCEPT !.pc = "send", !.id = i]
  <2>1. call' = [call EXCEPT ![c] = o]
    BY <1>4 DEF Register
  <2> HIDE DEF i
  <2>2. o.pc = "send" /\ o.gen = call[c].gen
    BY <1>1 DEF Call
  <2>3. ~SendRequest(c)
    BY <1>4 DEF Register, SendRequest
  <2> HIDE DEF o
  <2> QED
    BY <1>2, <2>1, <2>2, <2>3
<1> QED
  BY <1>3, <1>4

\* What happens to a call after CallRPC has taken it on.
LEMMA CallStepMaps ==
  ASSUME Inv, TypeOK', NEW c \in Calls,
         CallStep(c) \/ SendFails(c) \/ Cancelled(c)
  PROVE  Promise!Next \/ UNCHANGED Mapped
<1> USE DEF client, mux, channel
<1> DEFINE g == call[c].gen
<1>0. call[c].pc \in {"register", "send", "wait"}
  BY DEF CallStep, Register, SendRequest, Receive, SendFails, Cancelled
<1>1. /\ g \in Gens /\ g \in returned
      /\ UNCHANGED <<returned, stage>>
  BY <1>0 DEF Inv, TypeOK, CallInv, CallKnown, CallStep, Register, SendRequest,
              Receive, SendFails, Cancelled, GiveUp
<1>2. /\ call \in [Calls -> Call] /\ box \in [Calls -> {Empty} \cup Message]
      /\ closed[g] \in Causes \cup {"nil"}
  BY <1>1 DEF Inv, TypeOK
<1>3. ASSUME Register(c), closed[g] = "nil"
      PROVE  UNCHANGED Mapped
  <2>1. call[c].pc = "register" /\ ~SendRequest(c)
    BY <1>3 DEF Register, SendRequest
  <2>2. /\ call'[c].pc = "send" /\ call'[c].gen = g
        /\ \A d \in Calls : d # c => call'[d] = call[d]
    BY <1>2, <1>3, <2>1, AdvancedCall
  <2>3. FateOf(c)' = FateOf(c)
    BY <2>1, <2>2 DEF FateOf
  <2> QED
    BY <1>1, <2>2, <2>3, CallMaps DEF Inv
<1>4. ASSUME NEW o \in Outcomes, NEW of \in Calls \cup {"mux"},
             Finish(c, o, of)
      PROVE  /\ FateOf(c) \in {"asked", "sent"}
             /\ call[c].pc = "wait" => FateOf(c) = "sent"
             /\ FateOf(c)' = IF o = "reply" THEN "replied"
                             ELSE IF o \in Causes THEN "ended" ELSE "failed"
             /\ call'[c].gen = g
             /\ \A d \in Calls : d # c => call'[d] = call[d]
  <2>1. /\ call'[c].pc = "end" /\ call'[c].outcome = o
        /\ call'[c].gen = g
        /\ \A d \in Calls : d # c => call'[d] = call[d]
    BY <1>2, <1>4, FinishedCall
  <2> QED
    BY <1>0, <2>1 DEF FateOf
<1>5. closed[g] # "nil" => closed[g] \in Causes /\ StatusOf(g) # "open"
  BY <1>1 DEF Inv, TypeOK, SessionInv, Caused, StatusOf
<1>6. Causes \subseteq Outcomes /\ "reply" \notin Causes
  BY DEF Outcomes, Causes
<1> HIDE DEF g
<1>7. ASSUME Register(c), closed[g] # "nil"
      PROVE  Promise!Next
  <2>1. Finish(c, closed[g], "mux") /\ call[c].pc = "register"
    BY <1>7 DEF Register, g
  <2>2. /\ FateOf(c) \in {"asked", "sent"} /\ FateOf(c)' = "ended"
        /\ call'[c].gen = g /\ \A d \in Calls : d # c => call'[d] = call[d]
    BY <1>4, <1>5, <1>6, <1>7, <2>1
  <2>3. Promise!Ended(c)
    BY <1>1, <1>5, <1>7, <2>2, CallMaps DEF Inv, g
  <2> QED
    BY <2>3 DEF Promise!Next
<1>8. ASSUME SendRequest(c)
      PROVE  Promise!Next
  <2>1. call[c].pc = "send" /\ ~PeerClosed(g)
    BY <1>8 DEF SendRequest, g
  <2>2. /\ call'[c].pc = "wait" /\ call'[c].gen = g
        /\ \A d \in Calls : d # c => call'[d] = call[d]
    BY <1>2, <1>8, AdvancedCall DEF g
  <2>3. FateOf(c) = "asked" /\ FateOf(c)' = "sent"
    BY <2>1, <2>2 DEF FateOf
  <2>4. stage[g] # "end" /\ StatusOf(g) # "fenced"
    BY <2>1 DEF PeerClosed, StatusOf
  <2>5. \A h \in returned : h <= g
    BY <1>1, <2>4, UnfencedNewest
  <2>6. Promise!Send(c)
    BY <1>1, <2>3, <2>4, <2>5, <2>2, CallMaps DEF Inv, g
  <2> QED
    BY <2>6 DEF Promise!Next
<1>9. ASSUME SendFails(c) \/ Cancelled(c)
      PROVE  Promise!Next
  <2>1. PICK error \in Errors : Finish(c, error, "mux")
    BY <1>9 DEF SendFails, Cancelled, GiveUp, Errors
  <2>2. error \in Outcomes /\ error # "reply" /\ error \notin Causes
    BY DEF Outcomes, Errors, Causes
  <2>3. /\ FateOf(c) \in {"asked", "sent"} /\ FateOf(c)' = "failed"
        /\ call'[c].gen = g /\ \A d \in Calls : d # c => call'[d] = call[d]
    BY <1>4, <2>1, <2>2
  <2>4. Promise!Fail(c)
    BY <1>1, <2>3, CallMaps DEF Inv, g
  <2> QED
    BY <2>4 DEF Promise!Next
<1>10. ASSUME Receive(c)
       PROVE  Promise!Next
  <2>1. /\ call[c].pc = "wait" /\ box[c] # Empty
        /\ Finish(c, box[c].what, box[c].of)
        /\ box[c].of \in Calls \cup {"mux"}
    BY <1>2, <1>10 DEF Receive, Message
  <2>2. box[c].what = "reply" \/ box[c].what \in Causes
    BY <1>2, <2>1 DEF Message
  <2>3. CASE box[c].what = "reply"
    <3>1. /\ FateOf(c) = "sent" /\ FateOf(c)' = "replied"
          /\ call'[c].gen = g /\ \A d \in Calls : d # c => call'[d] = call[d]
      BY <1>4, <2>1, <2>3 DEF Outcomes
    <3>2. Promise!Reply(c)
      BY <1>1, <3>1, CallMaps DEF Inv, g
    <3> QED
      BY <3>2 DEF Promise!Next
  <2>4. CASE box[c].what \in Causes
    <3>1. /\ FateOf(c) \in {"asked", "sent"} /\ FateOf(c)' = "ended"
          /\ call'[c].gen = g /\ \A d \in Calls : d # c => call'[d] = call[d]
      BY <1>4, <1>6, <2>1, <2>4
    <3>2. StatusOf(g) # "open"
      BY <1>5, <2>4 DEF Inv, CallInv, InBox, g
    <3>3. Promise!Ended(c)
      BY <1>1, <3>1, <3>2, CallMaps DEF Inv, g
    <3> QED
      BY <3>3 DEF Promise!Next
  <2> QED
    BY <2>2, <2>3, <2>4
<1> QED
  BY <1>3, <1>7, <1>8, <1>9, <1>10 DEF CallStep

\* A call is taken on, or refused by a session on its way out.
LEMMA CallRPCMaps ==
  ASSUME Inv, TypeOK', NEW c \in Calls, NEW g \in Gens, CallRPC(c, g)
  PROVE  Promise!Next
<1> USE DEF client, mux, channel
<1>1. /\ g \in returned /\ call[c].pc = "idle"
      /\ UNCHANGED <<returned, stage>>
  BY DEF CallRPC
<1>2. /\ call'[c].gen = g
      /\ \A d \in Calls : d # c => call'[d] = call[d]
      /\ \/ call'[c].pc = "register"
         \/ /\ call'[c].pc = "end" /\ PeerClosed(g)
            /\ call'[c].outcome \in Causes \cup {"unavailable"}
  BY StartedCall DEF Inv
<1>3. /\ FateOf(c) = "none"
      /\ \/ FateOf(c)' = "asked"
         \/ FateOf(c)' \in {"ended", "failed"} /\ StatusOf(g) # "open"
  BY <1>1, <1>2 DEF FateOf, StatusOf, PeerClosed, Causes
<1>4. /\ [d \in Calls |-> FateOf(d)']
           = [[d \in Calls |-> FateOf(d)] EXCEPT ![c] = FateOf(c)']
      /\ [d \in Calls |-> call'[d].gen]
           = [[d \in Calls |-> call[d].gen] EXCEPT ![c] = call'[c].gen]
      /\ UNCHANGED <<returned, [h \in Gens |-> StatusOf(h)]>>
  BY <1>1, <1>2, FateMaps DEF Inv, TypeOK
<1> HIDE DEF FateOf, StatusOf
<1>5. Promise!Ask(c, g)
  <2>1. [d \in Calls |-> FateOf(d)][c] = "none"
    BY <1>3
  <2>2. [h \in Gens |-> StatusOf(h)][g] = StatusOf(g)
    OBVIOUS
  <2>3. [d \in Calls |-> call'[d].gen]
          = [[d \in Calls |-> call[d].gen] EXCEPT ![c] = g]
    BY <1>2, <1>4
  <2> QED
    BY <1>1, <1>3, <1>4, <2>1, <2>2, <2>3 DEF Promise!Ask
<1> QED
  BY <1>5 DEF Promise!Next

\* Every step of the sessions and calls is one of the contract, or none.
LEMMA MapStep ==
  ASSUME Inv, [Next]_vars
  PROVE  Promise!Next \/ UNCHANGED Mapped
<1> USE DEF client, mux, channel
<1>0. TypeOK /\ TypeOK'
  BY TypeStep DEF Inv, SessionInv, CallInv
<1>1. CASE OpenSession \/ DialFails \/ Ready \/ Abandoned \/ Install
  BY <1>1, Stutter DEF OpenSession, DialFails, Ready, Abandoned, Install
<1>2. CASE Build
  <2>1. PICK g \in Gens : /\ stage[g] = "none"
                           /\ stage' = [stage EXCEPT ![g] = "up"]
    BY <1>2 DEF Build, Inv, SessionInv, OpenerNewest
  <2>2. UNCHANGED <<returned, call>> /\ "up" \in Stages
    BY <1>2 DEF Build, Stages
  <2>3. StatusOf(g)' = StatusOf(g)
    BY <1>0, <2>1 DEF StatusOf, TypeOK
  <2> QED
    BY <1>0, <2>1, <2>2, <2>3, StageMaps
<1>3. CASE NegotiationFails
  <2>1. opener.gen \in Gens /\ Shutdown(opener.gen, "lost") /\ "lost" \in Causes
    BY <1>3 DEF NegotiationFails, Inv, SessionInv, OpenerNewest, Causes
  <2> QED
    BY <1>0, <1>3, <2>1, ShutdownMaps DEF NegotiationFails
<1>4. CASE FencePrevious
  <2>1. CASE opener.previous = 0
    BY <1>4, <2>1, Stutter DEF FencePrevious
  <2>2. CASE opener.previous # 0
    <3>1. /\ opener.previous \in Gens /\ "replaced" \in Causes
          /\ Shutdown(opener.previous, "replaced")
          /\ UNCHANGED <<returned, call>>
      BY <1>0, <1>4, <2>2 DEF FencePrevious, TypeOK, Opener, Causes
    <3> QED
      BY <1>0, <3>1, ShutdownMaps
  <2> QED
    BY <2>1, <2>2
<1>5. CASE Return
  <2>1. /\ returned' = returned \cup {opener.gen}
        /\ UNCHANGED <<stage, call>>
        /\ opener.gen \in Gens
    BY <1>5 DEF Return, Inv, SessionInv, OpenerNewest
  <2>2. ASSUME NEW h \in returned
        PROVE  h < opener.gen /\ StatusOf(h) = "fenced"
    <3>1. h <= opener.gen /\ h # opener.gen /\ h \in Nat /\ opener.gen \in Nat
      BY <1>0, <1>5 DEF Return, Inv, SessionInv, OpenerNewest, ReturnedBuilt,
                        TypeOK, Gens
    <3>2. h # 0
      BY <1>0 DEF TypeOK, Gens
    <3>3. stage[h] = "end"
      BY <1>5, <3>1, <3>2 DEF Return, Fenced, Inv, SessionInv, Tracked,
                              ActiveWhileSwapping, Swapping
    <3> QED
      BY <3>1, <3>3 DEF StatusOf
  <2>3. UNCHANGED <<[g \in Gens |-> StatusOf(g)], [c \in Calls |-> FateOf(c)],
                    [c \in Calls |-> call[c].gen]>>
    BY <2>1 DEF StatusOf, FateOf
  <2>4. \A h \in returned : [g \in Gens |-> StatusOf(g)][h] = "fenced"
    BY <1>0, <2>2 DEF TypeOK
  <2>5. Promise!Issue(opener.gen)
    BY <2>1, <2>2, <2>3, <2>4 DEF Promise!Issue
  <2> QED
    BY <2>1, <2>5 DEF Promise!Next
<1>6. ASSUME NEW g \in Gens, CloseMux(g) \/ Proceed(g) \/ ClearActive(g)
      PROVE  Promise!Next \/ UNCHANGED Mapped
  <2>1. \E s \in Stages : stage' = [stage EXCEPT ![g] = s]
    BY <1>0, <1>6 DEF CloseMux, Proceed, ClearActive, Stages
  <2>2. UNCHANGED <<returned, call>>
    BY <1>6 DEF CloseMux, Proceed, ClearActive
  <2>3. StatusOf(g) = "ending"
    BY <1>6 DEF CloseMux, Proceed, ClearActive, StatusOf
  <2>4. StatusOf(g)' \in {"ending", "fenced"}
    BY <1>0, <1>6 DEF CloseMux, Proceed, ClearActive, StatusOf, TypeOK
  <2>5. Promise!Fence(g) \/ UNCHANGED Mapped
    BY <1>0, <2>1, <2>2, <2>3, <2>4, StageMaps
  <2> QED
    BY <2>5 DEF Promise!Next
<1>7. ASSUME NEW g \in Gens,
             \/ \E c \in Calls : AnswerPending(g, c)
             \/ \E request \in requests : Deliver(g, request)
             \/ HandOver(g) \/ SendHID(g) \/ Push(g) \/ FlushHID(g)
             \/ Flushed(g) \/ FlushWakes(g) \/ FlushFails(g) \/ Drain(g)
             \/ OnBufferedAmountLow(g)
      PROVE  UNCHANGED Mapped
  <2>1. UNCHANGED <<returned, stage, call>>
    BY <1>7 DEF AnswerPending, Deliver, HandOver, SendHID, Push, FlushHID,
                Flushed, FlushWakes, FlushFails, Drain, OnBufferedAmountLow
  <2> QED
    BY <2>1, Stutter
<1>8. ASSUME NEW g \in Gens, LinkLost(g) \/ CloseContext(g)
      PROVE  Promise!Next \/ UNCHANGED Mapped
  <2>1. PICK why \in Causes : Shutdown(g, why)
    BY <1>8 DEF LinkLost, CloseContext, Causes
  <2>2. UNCHANGED <<returned, call>>
    BY <1>8 DEF LinkLost, CloseContext
  <2> QED
    BY <1>0, <2>1, <2>2, ShutdownMaps
<1>9. ASSUME NEW c \in Calls, CallStep(c) \/ SendFails(c) \/ Cancelled(c)
      PROVE  Promise!Next \/ UNCHANGED Mapped
  BY <1>0, <1>9, CallStepMaps
<1>10. ASSUME NEW c \in Calls, NEW g \in Gens, CallRPC(c, g)
       PROVE  Promise!Next
  BY <1>0, <1>10, CallRPCMaps
<1>11. CASE UNCHANGED vars
  BY <1>11, Stutter DEF vars
<1> QED
  BY <1>1, <1>2, <1>3, <1>4, <1>5, <1>6, <1>7, <1>8, <1>9, <1>10, <1>11
     DEF Next, Opening, ShutdownStep

\* The sessions, their shutdown and their calls implement what a client
\* promises its users (Client.OpenSession, Session.CallRPC).
THEOREM ContractKept == Spec => KeepsContract
<1>1. Init => Promise!Init
  BY DEF Init, Promise!Init, StatusOf, FateOf, NoCall
<1>2. Inv /\ [Next]_vars => Promise!Next \/ UNCHANGED Mapped
  BY MapStep
<1> QED
  BY <1>1, <1>2, InvHolds, PTL DEF Spec, KeepsContract, Promise!Spec, Mapped
=============================================================================
