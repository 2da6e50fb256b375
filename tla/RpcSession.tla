----------------------------- MODULE RpcSession -----------------------------
(***************************************************************************)
(* The protocol sessions of one JetKVM client (internal/jetkvm/session.go, *)
(* rpc.go): Client.OpenSession, which fences the session it replaces,      *)
(* Session.shutdown, which every failure and every close races to run,     *)
(* the JSON-RPC calls and HID reports in flight while it runs.             *)
(*                                                                         *)
(* How one session is negotiated is left out; here it takes a while and    *)
(* succeeds or fails.                                                      *)
(***************************************************************************)
EXTENDS Naturals, FiniteSets

CONSTANTS
  Calls,       \* CallRPC invocations
  MaxGen,      \* bound: how many sessions are opened
  MaxQueue     \* bound: reports the HID channel has queued; 0: no HID sender

ASSUME MaxGenAssumption == MaxGen \in Nat
ASSUME MaxQueueAssumption == MaxQueue \in Nat

Gens == 1..MaxGen

\* Session.shutdown, by what it does next.  "none": openSession has built no
\* session yet; "up": nobody has called shutdown.
Stages == {"none", "up", "mux", "answers", "peer", "done", "clear", "end"}
Causes == {"closed", "replaced", "lost"}

\* What a call returns.  "reply" is the device's result or error, the text of
\* which no property is about.
Errors == {"unavailable", "protocol", "cancelled"}
Outcomes == {"none", "reply"} \cup Causes \cup Errors

\* OpenSession under openMu, by what it does next.
Opener == [pc: {"idle", "dial", "negotiate", "abandon", "install", "fence",
                "return"},
           gen: Gens \cup {0}, previous: Gens \cup {0}]

\* A buffered result channel of capacity one, and whose request it answers.
Message == [what: {"reply"}, of: Calls] \cup [what: Causes, of: {"mux"}]
Empty == [what |-> "empty", of |-> "mux"]

\* The "g%d-r%d" of rpcMux.register, and the id of a call that has none yet.
Ids == (Gens \X Nat) \cup {<<0, 0>>}

Call == [pc: {"idle", "register", "send", "wait", "end"},
         gen: Gens \cup {0}, id: Ids,
         outcome: Outcomes, of: Calls \cup {"mux"}]
NoCall == [pc |-> "idle", gen |-> 0, id |-> <<0, 0>>,
           outcome |-> "none", of |-> "mux"]

VARIABLES
  generation, active,    \* Client.generation, Client.active (0: nil)
  opener,      \* the OpenSession that holds openMu
  returned,    \* sessions OpenSession has handed to its caller
  stage, cause,          \* Session.shutdown and Session.cause
  closed, nextID, pending,    \* rpcMux
  answering,   \* calls rpcMux.close has still to answer
  hand,        \* the outcome rpcMux.deliver is about to send
  box,         \* the result channel of each call
  call,        \* the calls
  requests,    \* requests the device has received
  hid,         \* the sender of HID reports of each session
  queued, low, token     \* the HID channel: BufferedAmount, a callback due, hidLow

client == <<generation, active, opener, returned>>
mux == <<closed, nextID, pending, answering, hand, box>>
channel == <<hid, queued, low, token>>
vars == <<client, stage, cause, mux, call, requests, channel>>

Init ==
  /\ generation = 0 /\ active = 0
  /\ opener = [pc |-> "idle", gen |-> 0, previous |-> 0]
  /\ returned = {}
  /\ stage = [g \in Gens |-> "none"]
  /\ cause = [g \in Gens |-> "nil"]
  /\ closed = [g \in Gens |-> "nil"]
  /\ nextID = [g \in Gens |-> 0]
  /\ pending = [g \in Gens |-> {}]
  /\ answering = [g \in Gens |-> {}]
  /\ hand = [g \in Gens |-> Empty]
  /\ box = [c \in Calls |-> Empty]
  /\ call = [c \in Calls |-> NoCall]
  /\ requests = {}
  /\ hid = [g \in Gens |-> "idle"]
  /\ queued = [g \in Gens |-> 0]
  /\ low = [g \in Gens |-> FALSE]
  /\ token = [g \in Gens |-> FALSE]

\* peer.Close has run: sends on the session's data channels fail.
PeerClosed(g) == stage[g] \in {"done", "clear", "end"}

\* Session.done is closed.
Done(g) == stage[g] \in {"clear", "end"}

Fenced(g) == stage[g] = "end"
-----------------------------------------------------------------------------
(* Session.shutdown.  closeOnce lets one caller in; the others block until *)
(* it has finished.                                                        *)

\* closeOnce.Do and the cause.  A later caller changes nothing.
Shutdown(g, why) ==
  IF stage[g] = "up"
    THEN /\ stage' = [stage EXCEPT ![g] = "mux"]
         /\ cause' = [cause EXCEPT ![g] = why]
    ELSE UNCHANGED <<stage, cause>>

\* rpcMux.close, under its mutex.
CloseMux(g) ==
  /\ stage[g] = "mux"
  /\ stage' = [stage EXCEPT ![g] = "answers"]
  /\ closed' = [closed EXCEPT ![g] = cause[g]]
  /\ answering' = [answering EXCEPT ![g] = pending[g]]
  /\ pending' = [pending EXCEPT ![g] = {}]
  /\ UNCHANGED <<client, cause, nextID, hand, box, call, requests, channel>>

\* One send of the loop that follows; it would block on a full channel.
AnswerPending(g, c) ==
  /\ stage[g] = "answers"
  /\ c \in answering[g]
  /\ box[c] = Empty
  /\ box' = [box EXCEPT ![c] = [what |-> closed[g], of |-> "mux"]]
  /\ answering' = [answering EXCEPT ![g] = @ \ {c}]
  /\ UNCHANGED <<client, stage, cause, closed, nextID, pending, hand, call,
                 requests, channel>>

\* Mutant of Proceed: the loop over the pending calls breaks off.
ProceedAnyway(g) ==
  /\ stage[g] \in {"answers", "peer", "done"}
  /\ stage' = [stage EXCEPT ![g] = CASE @ = "answers" -> "peer"
                                      [] @ = "peer" -> "done"
                                      [] @ = "done" -> "clear"]
  /\ UNCHANGED <<client, cause, mux, call, requests, channel>>

\* The loop is through; cancel, peer.Close and CloseNow; close(done).
Proceed(g) ==
  /\ stage[g] \in {"answers", "peer", "done"}
  /\ answering[g] = {}
  /\ stage' = [stage EXCEPT ![g] = CASE @ = "answers" -> "peer"
                                      [] @ = "peer" -> "done"
                                      [] @ = "done" -> "clear"]
  /\ UNCHANGED <<client, cause, mux, call, requests, channel>>

\* The client forgets the session, unless another one has taken its place.
ClearActive(g) ==
  /\ stage[g] = "clear"
  /\ stage' = [stage EXCEPT ![g] = "end"]
  /\ active' = IF active = g THEN 0 ELSE active
  /\ UNCHANGED <<generation, opener, returned, cause, mux, call, requests,
                 channel>>

ShutdownStep(g) ==
  \/ CloseMux(g)
  \/ \E c \in Calls : AnswerPending(g, c)
  \/ Proceed(g)
  \/ ClearActive(g)

\* A worker or a callback meets a failed peer, socket or handshake.
LinkLost(g) ==
  /\ stage[g] = "up"
  /\ Shutdown(g, "lost")
  /\ UNCHANGED <<client, mux, call, requests, channel>>

\* CloseContext by whoever was given the session.
CloseContext(g) ==
  /\ g \in returned
  /\ stage[g] = "up"
  /\ Shutdown(g, "closed")
  /\ UNCHANGED <<client, mux, call, requests, channel>>
-----------------------------------------------------------------------------
(* Client.OpenSession, under openMu.                                       *)

Release == opener' = [pc |-> "idle", gen |-> 0, previous |-> 0]

OpenSession ==
  /\ opener.pc = "idle"
  /\ generation < MaxGen
  /\ generation' = generation + 1
  /\ opener' = [opener EXCEPT !.pc = "dial", !.gen = generation + 1]
  /\ UNCHANGED <<active, returned, stage, cause, mux, call, requests, channel>>

\* The socket, the metadata and the peer are there, or the call has failed.
Build ==
  /\ opener.pc = "dial"
  /\ stage' = [stage EXCEPT ![opener.gen] = "up"]
  /\ opener' = [opener EXCEPT !.pc = "negotiate"]
  /\ UNCHANGED <<generation, active, returned, cause, mux, call, requests,
                 channel>>

DialFails ==
  /\ opener.pc = "dial"
  /\ Release
  /\ UNCHANGED <<generation, active, returned, stage, cause, mux, call,
                 requests, channel>>

\* waitReady.  It may miss a session that is already being shut down.
Ready ==
  /\ opener.pc = "negotiate"
  /\ opener' = [opener EXCEPT !.pc = "install"]
  /\ UNCHANGED <<generation, active, returned, stage, cause, mux, call,
                 requests, channel>>

NegotiationFails ==
  /\ opener.pc = "negotiate"
  /\ Shutdown(opener.gen, "lost")
  /\ opener' = [opener EXCEPT !.pc = "abandon"]
  /\ UNCHANGED <<generation, active, returned, mux, call, requests, channel>>

Abandoned ==
  /\ opener.pc = "abandon"
  /\ Fenced(opener.gen)
  /\ Release
  /\ UNCHANGED <<generation, active, returned, stage, cause, mux, call,
                 requests, channel>>

Install ==
  /\ opener.pc = "install"
  /\ active' = opener.gen
  /\ opener' = [opener EXCEPT !.pc = "fence", !.previous = active]
  /\ UNCHANGED <<generation, returned, stage, cause, mux, call, requests,
                 channel>>

FencePrevious ==
  /\ opener.pc = "fence"
  /\ opener' = [opener EXCEPT !.pc = "return"]
  /\ IF opener.previous = 0
       THEN UNCHANGED <<stage, cause>>
       ELSE Shutdown(opener.previous, "replaced")
  /\ UNCHANGED <<generation, active, returned, mux, call, requests, channel>>

\* Mutant of Return: somebody else's shutdown is not waited for.
ReturnEarly ==
  /\ opener.pc = "return"
  /\ returned' = returned \cup {opener.gen}
  /\ Release
  /\ UNCHANGED <<generation, active, stage, cause, mux, call, requests, channel>>

\* previous.shutdown has come back, whoever ran it.
Return ==
  /\ opener.pc = "return"
  /\ opener.previous # 0 => Fenced(opener.previous)
  /\ returned' = returned \cup {opener.gen}
  /\ Release
  /\ UNCHANGED <<generation, active, stage, cause, mux, call, requests, channel>>

Opening == \/ Build \/ DialFails \/ Ready \/ NegotiationFails \/ Abandoned
           \/ Install \/ FencePrevious \/ Return
-----------------------------------------------------------------------------
(* Session.CallRPC, rpcMux and waitRPC.                                    *)

Finish(c, outcome, of) ==
  call' = [call EXCEPT ![c].pc = "end", ![c].outcome = outcome, ![c].of = of]

Refuse(c, g, outcome) ==
  call' = [call EXCEPT ![c] = [@ EXCEPT !.pc = "end", !.gen = g,
                                        !.outcome = outcome]]

\* The checks of done and of the channel's ReadyState.
CallRPC(c, g) ==
  /\ call[c].pc = "idle"
  /\ g \in returned
  /\ CASE Done(g) -> Refuse(c, g, cause[g])
       [] PeerClosed(g) /\ ~Done(g) -> Refuse(c, g, "unavailable")
       [] OTHER -> call' = [call EXCEPT ![c].pc = "register", ![c].gen = g]
  /\ UNCHANGED <<client, stage, cause, mux, requests, channel>>

\* Mutant of Register: ids do not name the generation.
RegisterBareID(c) ==
  LET g == call[c].gen
  IN /\ call[c].pc = "register"
     /\ closed[g] = "nil"
     /\ nextID' = [nextID EXCEPT ![g] = @ + 1]
     /\ pending' = [pending EXCEPT ![g] = @ \cup {c}]
     /\ call' = [call EXCEPT ![c].pc = "send", ![c].id = <<1, nextID[g] + 1>>]
     /\ UNCHANGED <<client, stage, cause, closed, answering, hand, box,
                    requests, channel>>

\* rpcMux.register, under its mutex.
Register(c) ==
  LET g == call[c].gen
  IN /\ call[c].pc = "register"
     /\ IF closed[g] # "nil"
          THEN /\ Finish(c, closed[g], "mux")
               /\ UNCHANGED <<nextID, pending>>
          ELSE /\ nextID' = [nextID EXCEPT ![g] = @ + 1]
               /\ pending' = [pending EXCEPT ![g] = @ \cup {c}]
               /\ call' = [call EXCEPT ![c].pc = "send",
                                       ![c].id = <<g, nextID[g] + 1>>]
     /\ UNCHANGED <<client, stage, cause, closed, answering, hand, box,
                    requests, channel>>

\* rpcMux.remove and an error of CallRPC's own.
GiveUp(c, error) ==
  /\ pending' = [pending EXCEPT ![call[c].gen] = @ \ {c}]
  /\ Finish(c, error, "mux")
  /\ UNCHANGED <<client, stage, cause, closed, nextID, answering, hand, box,
                 requests, channel>>

SendRequest(c) ==
  /\ call[c].pc = "send"
  /\ ~PeerClosed(call[c].gen)
  /\ requests' = requests \cup {[id |-> call[c].id, of |-> c]}
  /\ call' = [call EXCEPT ![c].pc = "wait"]
  /\ UNCHANGED <<client, stage, cause, mux, channel>>

\* The parameters do not marshal, or SendText refuses.
SendFails(c) ==
  /\ call[c].pc = "send"
  /\ \E error \in {"protocol", "unavailable"} : GiveUp(c, error)

Receive(c) ==
  /\ call[c].pc = "wait"
  /\ box[c] # Empty
  /\ Finish(c, box[c].what, box[c].of)
  /\ pending' = [pending EXCEPT ![call[c].gen] = @ \ {c}]
  /\ UNCHANGED <<client, stage, cause, closed, nextID, answering, hand, box,
                 requests, channel>>

\* The caller's context ends, an answer in the channel or not.
Cancelled(c) ==
  /\ call[c].pc = "wait"
  /\ GiveUp(c, "cancelled")

\* rpcMux.deliver of a message on session g's channel: it takes the result
\* channel out of the map under the mutex, and sends after it.  The device
\* may answer a request late, twice, or on a newer session than it came from.
Deliver(g, request) ==
  /\ hand[g] = Empty
  /\ stage[g] # "none"
  /\ request \in requests
  /\ \E c \in pending[g] :
       /\ call[c].id = request.id
       /\ pending' = [pending EXCEPT ![g] = @ \ {c}]
       /\ hand' = [hand EXCEPT ![g] = [what |-> "reply", of |-> request.of,
                                       to |-> c]]
  /\ UNCHANGED <<client, stage, cause, closed, nextID, answering, box, call,
                 requests, channel>>

HandOver(g) ==
  /\ hand[g] # Empty
  /\ box[hand[g].to] = Empty
  /\ box' = [box EXCEPT ![hand[g].to] = [what |-> "reply", of |-> hand[g].of]]
  /\ hand' = [hand EXCEPT ![g] = Empty]
  /\ UNCHANGED <<client, stage, cause, closed, nextID, pending, answering, call,
                 requests, channel>>

CallStep(c) == Register(c) \/ SendRequest(c) \/ Receive(c)
-----------------------------------------------------------------------------
(* Session.SendHIDForGeneration and FlushHID.  The session adapter sends   *)
(* one report at a time (operationMu).                                     *)

SendHID(g) ==
  /\ MaxQueue > 0
  /\ hid[g] = "idle"
  /\ g \in returned
  /\ ~PeerClosed(g)
  /\ hid' = [hid EXCEPT ![g] = "checked"]
  /\ UNCHANGED <<client, stage, cause, mux, call, requests, queued, low, token>>

\* hidChannel.Send, some time after the checks.
Push(g) ==
  /\ hid[g] = "checked"
  /\ hid' = [hid EXCEPT ![g] = "idle"]
  /\ \/ /\ ~PeerClosed(g)
        /\ queued[g] < MaxQueue
        /\ queued' = [queued EXCEPT ![g] = @ + 1]
     \/ UNCHANGED queued
  /\ UNCHANGED <<client, stage, cause, mux, call, requests, low, token>>

FlushHID(g) ==
  /\ MaxQueue > 0
  /\ hid[g] = "idle"
  /\ g \in returned
  /\ hid' = [hid EXCEPT ![g] = "flush"]
  /\ UNCHANGED <<client, stage, cause, mux, call, requests, queued, low, token>>

\* The loop's test of BufferedAmount.
Flushed(g) ==
  /\ hid[g] = "flush"
  /\ hid' = [hid EXCEPT ![g] = IF queued[g] = 0 THEN "idle" ELSE "await"]
  /\ UNCHANGED <<client, stage, cause, mux, call, requests, queued, low, token>>

FlushWakes(g) ==
  /\ hid[g] = "await"
  /\ token[g]
  /\ token' = [token EXCEPT ![g] = FALSE]
  /\ hid' = [hid EXCEPT ![g] = "flush"]
  /\ UNCHANGED <<client, stage, cause, mux, call, requests, queued, low>>

\* The session is done, or the caller's context is.
FlushFails(g) ==
  /\ hid[g] = "await"
  /\ hid' = [hid EXCEPT ![g] = "idle"]
  /\ UNCHANGED <<client, stage, cause, mux, call, requests, queued, low, token>>

\* The peer acknowledges what was queued; the callback runs after that.
Drain(g) ==
  /\ queued[g] > 0
  /\ ~PeerClosed(g)
  /\ queued' = [queued EXCEPT ![g] = @ - 1]
  /\ low' = [low EXCEPT ![g] = @ \/ queued[g] = 1]
  /\ UNCHANGED <<client, stage, cause, mux, call, requests, hid, token>>

\* Mutant of OnBufferedAmountLow: hidLow has no buffer, and the flusher that
\* has seen the amount is not in its select yet.
OnBufferedAmountLowUnbuffered(g) ==
  /\ low[g]
  /\ low' = [low EXCEPT ![g] = FALSE]
  /\ UNCHANGED <<client, stage, cause, mux, call, requests, hid, queued, token>>

OnBufferedAmountLow(g) ==
  /\ low[g]
  /\ low' = [low EXCEPT ![g] = FALSE]
  /\ token' = [token EXCEPT ![g] = TRUE]
  /\ UNCHANGED <<client, stage, cause, mux, call, requests, hid, queued>>
-----------------------------------------------------------------------------
Next ==
  \/ OpenSession
  \/ Opening
  \/ \E g \in Gens :
       \/ ShutdownStep(g) \/ LinkLost(g) \/ CloseContext(g)
       \/ \E request \in requests : Deliver(g, request)
       \/ HandOver(g)
       \/ SendHID(g) \/ Push(g) \/ FlushHID(g) \/ Flushed(g) \/ FlushWakes(g)
       \/ FlushFails(g) \/ Drain(g) \/ OnBufferedAmountLow(g)
  \/ \E c \in Calls :
       \/ \E g \in Gens : CallRPC(c, g)
       \/ CallStep(c) \/ SendFails(c) \/ Cancelled(c)

Spec == Init /\ [][Next]_vars

\* The program's own threads run: shutdown, a call, a delivery, the opener
\* once it holds openMu, a flush that can go on.  Nothing is asked of the
\* device, of the network or of any context.
Fairness ==
  /\ WF_vars(Opening)
  /\ \A g \in Gens :
       /\ WF_vars(ShutdownStep(g))
       /\ WF_vars(HandOver(g))
       /\ WF_vars(Flushed(g) \/ FlushWakes(g) \/ (Done(g) /\ FlushFails(g)))
       /\ WF_vars(OnBufferedAmountLow(g))
  /\ \A c \in Calls : WF_vars(CallStep(c) \/ SendFails(c))

FairSpec == Spec /\ Fairness
-----------------------------------------------------------------------------
TypeOK ==
  /\ generation \in Gens \cup {0}
  /\ active \in Gens \cup {0}
  /\ opener \in Opener
  /\ returned \subseteq Gens
  /\ stage \in [Gens -> Stages]
  /\ cause \in [Gens -> Causes \cup {"nil"}]
  /\ closed \in [Gens -> Causes \cup {"nil"}]
  /\ nextID \in [Gens -> Nat]
  /\ pending \in [Gens -> SUBSET Calls]
  /\ answering \in [Gens -> SUBSET Calls]
  /\ hand \in [Gens -> {Empty} \cup [what: {"reply"}, of: Calls, to: Calls]]
  /\ box \in [Calls -> {Empty} \cup Message]
  /\ call \in [Calls -> Call]
  /\ requests \subseteq [id: Ids, of: Calls]
  /\ hid \in [Gens -> {"idle", "checked", "flush", "await"}]
  /\ queued \in [Gens -> 0..MaxQueue]
  /\ low \in [Gens -> BOOLEAN]
  /\ token \in [Gens -> BOOLEAN]

\* A call that returns a reply returns the reply to its own request: not one
\* to another call, nor to a call of a session that was replaced, however
\* late, often or on whichever channel the device answers (rpcMux.deliver).
OwnReply == \A c \in Calls : call[c].outcome = "reply" => call[c].of = c

\* A result channel has room for whoever is about to send on it, outside the
\* mutex: no delivery and no shutdown ever blocks there (rpcMux.deliver and
\* close each take a channel out of the map before they send on it).
SendersHaveRoom ==
  \A g \in Gens :
    /\ \A c \in answering[g] : box[c] = Empty
    /\ hand[g] # Empty => /\ box[hand[g].to] = Empty
                          /\ hand[g].to \notin answering[g]

\* Somebody still has the channel of a call that waits, or it is full; the
\* map of a session that was shut down is empty, and a call that returned is
\* in no map (CallRPC removes its id on every path).
CallsHaveAnAnswerer ==
  \A c \in Calls : LET g == call[c].gen IN
    /\ call[c].pc = "wait" => \/ c \in pending[g] /\ closed[g] = "nil"
                              \/ c \in answering[g]
                              \/ hand[g] # Empty /\ hand[g].to = c
                              \/ box[c] # Empty
    /\ call[c].pc = "end" => \A h \in Gens : c \notin pending[h]

\* A session some caller was given and that is still up is the client's active
\* one, or the one OpenSession is about to fence: the client loses track of no
\* living session, and hands out a second one only when the first is fenced.
LiveIsActive ==
  \A g \in returned :
    stage[g] = "up" => \/ active = g
                       \/ opener.pc = "fence" /\ opener.previous = g

\* Once OpenSession has returned a session, no request and no HID report goes
\* out on an older one, although SendHID and CallRPC send some time after they
\* looked at done ("a newly ready session fences and closes the previous
\* session").
FencedTraffic ==
  [][\A g \in Gens :
       (\/ queued'[g] > queued[g]
        \/ \E request \in requests' \ requests : request.id[1] = g)
       => \A h \in returned : h <= g]_vars

\* A flusher that waits on a session that is not done will be woken: reports
\* are queued still, the callback is due or the token is there, whatever token
\* an earlier flush left behind (FlushHID, OnBufferedAmountLow).
NoLostWakeup ==
  \A g \in Gens :
    hid[g] = "await" => queued[g] > 0 \/ low[g] \/ token[g]

\* Shutting a session down ends what is in flight on it: every call returns
\* and every flush gives up, without help of the device or of a context.
FencedReleases ==
  /\ \A c \in Calls, g \in Gens :
       (call[c].gen = g /\ stage[g] \notin {"none", "up"}) ~> call[c].pc = "end"
  /\ \A g \in Gens :
       (hid[g] = "await" /\ stage[g] \notin {"none", "up"}) ~> hid[g] # "await"

StatusOf(g) == CASE stage[g] \in {"none", "up"} -> "open"
                 [] stage[g] = "end" -> "fenced"
                 [] OTHER -> "ending"

FateOf(c) == CASE call[c].pc = "idle" -> "none"
               [] call[c].pc \in {"register", "send"} -> "asked"
               [] call[c].pc = "wait" -> "sent"
               [] OTHER -> IF call[c].outcome = "reply" THEN "replied"
                           ELSE IF call[c].outcome \in Causes THEN "ended"
                           ELSE "failed"

Promise == INSTANCE SessionContract
             WITH issued <- returned,
                  status <- [g \in Gens |-> StatusOf(g)],
                  fate <- [c \in Calls |-> FateOf(c)],
                  owner <- [c \in Calls |-> call[c].gen]

\* The sessions, their shutdown and their calls keep what a client promises
\* its users (Client.OpenSession, Session.CallRPC).
KeepsContract == Promise!Spec
=============================================================================
