------------------------------ MODULE LinkProofs ------------------------------
(***************************************************************************)
(* Proofs about the parts of a link that MCLink puts side by side.  What   *)
(* is proved of a part for its own specification carries over to LinkSpec: *)
(* a behaviour of the union moves one part and leaves the variables of the *)
(* others alone.                                                           *)
(***************************************************************************)
EXTENDS MCLink, SequenceTheorems, FiniteSetTheorems, TLAPS

(***************************************************************************)
(* ClientAuth                                                              *)
(***************************************************************************)

\* Where a request is while it holds authMu, and before it has posted a login.
Inside == {"again", "login", "posting", "last"}
Outside == {"new", "first", "wait"} \cup A!Ended
Sendings == {"first", "again", "login", "posting", "last"}

\* No request has a cookie that the device has not given out.
NotAhead == jar <= cookie /\ \A r \in Requests : carried[r] <= cookie

\* The jar does not change under a request that holds the mutex before it has
\* posted, and it is worthless when the request is about to log in.
JarHeld ==
  \A r \in Requests :
    /\ pc[r] = "again" => carried[r] = jar
    /\ pc[r] \in {"login", "posting"} => jar # cookie

\* The cookie of the last login is in use, or on its way to the jar.
Usable == \/ jar = cookie
          \/ \E r \in Requests : pc[r] = "posting" /\ carried[r] = cookie

\* Every login but one that is still of use was undone by the device, or was
\* the login of a request that was lost.
Accounted == logins <= revoked + lost + (IF Usable THEN 1 ELSE 0)

\* While a request waits for the answer to its login, or to what it sends after
\* it, only the device can take the login away.
OwnLogin ==
  \A r \in Requests :
    /\ pc[r] \in {"posting", "last"} =>
         /\ seen[r] <= revoked + lost
         /\ carried[r] # cookie => seen[r] < revoked + lost
    /\ pc[r] = "denied" => seen[r] < revoked + lost

LoginInv ==
  /\ A!TypeOK
  /\ NotAhead
  /\ JarHeld
  /\ Accounted
  /\ OwnLogin

------------------------------------------------------------------------------

LEMMA LinkBounds ==
  /\ MaxRevoked \in Nat /\ MaxLost \in Nat
  /\ "free" \notin Requests
  BY LinkAssumption
     DEF LinkAssumption, A!BoundsAssumption, A!RequestsAssumption, A!Free

\* Where a step may take a request, and what it does to the mutex.
LEMMA LoginTyped ==
  ASSUME A!TypeOK, A!Next
  PROVE  A!TypeOK'
  <1> USE LinkBounds DEF A!TypeOK, A!Ended, A!Free
  <1>1. ASSUME NEW r \in Requests, A!Start(r) \/ A!Lock(r) \/ A!Unauthorized(r)
        PROVE  A!TypeOK'
    BY <1>1 DEF A!Start, A!Lock, A!Unauthorized, A!Send
  <1>2. ASSUME NEW r \in Requests,
               A!Answered(r) \/ A!StillUnauthorized(r) \/ A!NoPassword(r)
        PROVE  A!TypeOK'
    BY <1>2 DEF A!Answered, A!StillUnauthorized, A!NoPassword, A!End
  <1>3. ASSUME NEW r \in Requests,
               A!Post(r) \/ A!PostRefused(r) \/ A!Posted(r) \/ A!Denied(r)
        PROVE  A!TypeOK'
    BY <1>3 DEF A!Post, A!PostRefused, A!Posted, A!Denied, A!End
  <1>4. ASSUME NEW r \in Requests, A!Lose(r)
        PROVE  A!TypeOK'
    BY <1>4 DEF A!Lose, A!End
  <1>5. CASE A!Revoke
    BY <1>5 DEF A!Revoke
  <1> QED
    BY <1>1, <1>2, <1>3, <1>4, <1>5 DEF A!Next, A!Step

\* One request has the mutex, so one is on its way to a login.
LEMMA Alone ==
  ASSUME A!TypeOK, NEW r \in Requests, NEW q \in Requests,
         pc[r] \in Inside, pc[q] \in Inside
  PROVE  r = q
  BY DEF A!TypeOK, Inside

LEMMA LoginKept ==
  ASSUME LoginInv, A!Next
  PROVE  NotAhead' /\ JarHeld' /\ Accounted' /\ OwnLogin'
  <1>0. /\ cookie \in Nat \ {0} /\ jar \in Nat /\ carried \in [Requests -> Nat]
        /\ pc \in [Requests -> Inside \cup Outside]
        /\ logins \in Nat /\ revoked \in Nat /\ lost \in Nat
        /\ seen \in [Requests -> Nat]
        /\ NotAhead /\ JarHeld /\ Accounted /\ OwnLogin /\ A!TypeOK
    BY LinkBounds DEF LoginInv, A!TypeOK, Inside, Outside
  <1>1. ASSUME NEW r \in Requests, A!Start(r) \/ A!Lock(r) \/ A!Unauthorized(r)
        PROVE  NotAhead' /\ JarHeld' /\ Accounted' /\ OwnLogin'
    BY <1>0, <1>1 DEF NotAhead, JarHeld, Accounted, OwnLogin, Usable, Inside,
                      Outside, A!Ended, A!Start, A!Lock, A!Unauthorized, A!Send
  <1>2. ASSUME NEW r \in Requests,
               A!Answered(r) \/ A!NoPassword(r) \/ A!PostRefused(r)
        PROVE  NotAhead' /\ JarHeld' /\ Accounted' /\ OwnLogin'
    BY <1>0, <1>2 DEF NotAhead, JarHeld, Accounted, OwnLogin, Usable, Inside,
                      Outside, A!Ended, A!Answered, A!NoPassword, A!PostRefused,
                      A!End
  <1>3. ASSUME NEW r \in Requests, A!StillUnauthorized(r)
        PROVE  NotAhead' /\ JarHeld' /\ Accounted' /\ OwnLogin'
    BY <1>0, <1>3 DEF NotAhead, JarHeld, Accounted, OwnLogin, Usable, Inside,
                      Outside, A!Ended, A!StillUnauthorized, A!Welcome
  <1>4. ASSUME NEW r \in Requests, A!Post(r)
        PROVE  NotAhead' /\ JarHeld' /\ Accounted' /\ OwnLogin'
    <2>1. /\ pc[r] = "login" /\ pc' = [pc EXCEPT ![r] = "posting"]
          /\ cookie' = cookie + 1 /\ logins' = logins + 1
          /\ carried' = [carried EXCEPT ![r] = cookie + 1]
          /\ seen' = [seen EXCEPT ![r] = revoked + lost]
          /\ UNCHANGED <<jar, revoked, lost>>
      BY <1>4 DEF A!Post
    <2>2. ~Usable /\ Usable'
      BY <1>0, <2>1, Alone DEF Usable, JarHeld, Inside
    <2>3. \A q \in Requests : q # r => pc[q] \notin Inside
      BY <1>0, <2>1, Alone DEF Inside
    <2> QED
      BY <1>0, <2>1, <2>2, <2>3
         DEF NotAhead, JarHeld, Accounted, OwnLogin, Inside
  <1>5. ASSUME NEW r \in Requests, A!Posted(r)
        PROVE  NotAhead' /\ JarHeld' /\ Accounted' /\ OwnLogin'
    <2>1. /\ pc[r] = "posting" /\ pc' = [pc EXCEPT ![r] = "last"]
          /\ jar' = carried[r]
          /\ UNCHANGED <<cookie, carried, logins, revoked, lost, seen>>
      BY <1>5 DEF A!Posted
    <2>2. Usable' = Usable
      BY <1>0, <2>1, Alone DEF Usable, JarHeld, Inside
    <2>3. \A q \in Requests : q # r => pc[q] \notin Inside
      BY <1>0, <2>1, Alone DEF Inside
    <2> QED
      BY <1>0, <2>1, <2>2, <2>3
         DEF NotAhead, JarHeld, Accounted, OwnLogin, Inside
  <1>6. ASSUME NEW r \in Requests, A!Denied(r)
        PROVE  NotAhead' /\ JarHeld' /\ Accounted' /\ OwnLogin'
    BY <1>0, <1>6 DEF NotAhead, JarHeld, Accounted, OwnLogin, Usable, Inside,
                      Outside, A!Ended, A!Denied, A!Welcome, A!End
  <1>7. ASSUME NEW r \in Requests, A!Lose(r)
        PROVE  NotAhead' /\ JarHeld' /\ Accounted' /\ OwnLogin'
    BY <1>0, <1>7 DEF NotAhead, JarHeld, Accounted, OwnLogin, Inside,
                      Outside, A!Ended, A!Lose, A!End
  <1>8. CASE A!Revoke
    BY <1>0, <1>8 DEF NotAhead, JarHeld, Accounted, OwnLogin, Inside,
                      A!Revoke
  <1> QED
    BY <1>1, <1>2, <1>3, <1>4, <1>5, <1>6, <1>7, <1>8 DEF A!Next, A!Step

LEMMA LoginInvHolds == A!Spec => []LoginInv
  <1>1. A!Init => LoginInv
    BY LinkBounds DEF A!Init, LoginInv, A!TypeOK, NotAhead, JarHeld, Accounted,
                      OwnLogin, Usable, A!Free, A!Ended
  <1>2. LoginInv /\ [A!Next]_A!vars => LoginInv'
    <2>1. ASSUME LoginInv, A!Next
          PROVE  LoginInv'
      BY <2>1, LoginTyped, LoginKept DEF LoginInv
    <2>2. ASSUME LoginInv, UNCHANGED A!vars
          PROVE  LoginInv'
      BY <2>2 DEF A!vars, LoginInv, A!TypeOK, NotAhead, JarHeld, Accounted,
                  OwnLogin, Usable
    <2> QED
      BY <2>1, <2>2
  <1> QED
    BY <1>1, <1>2, PTL DEF A!Spec

LEMMA LoginSound ==
  ASSUME LoginInv
  PROVE  A!TypeOK /\ A!OneLoginEach /\ A!DeniedByDevice
  <1>1. logins \in Nat /\ revoked \in Nat /\ lost \in Nat /\ seen \in [Requests -> Nat]
    BY LinkBounds DEF LoginInv, A!TypeOK
  <1> QED
    BY <1>1 DEF LoginInv, Accounted, OwnLogin, A!OneLoginEach, A!DeniedByDevice

\* ClientAuth by itself: of any number of requests that find the cookie gone,
\* one logs in each time it is gone, and none is denied for another's login
\* (client.go:222-240).
THEOREM LoginsShared == A!Spec => [](A!OneLoginEach /\ A!DeniedByDevice)
  BY LoginInvHolds, LoginSound, PTL

------------------------------------------------------------------------------

\* A behaviour of the link that moves the login is one of ClientAuth.
LEMMA HasLogins == LinkSpec => A!Spec
  <1>1. LinkInit => A!Init
    BY DEF LinkInit
  <1>2. [LinkNext]_linkVars => [A!Next]_A!vars
    BY DEF LinkNext, linkVars, loginVars, A!vars
  <1> QED
    BY <1>1, <1>2, PTL DEF LinkSpec, A!Spec

\* The login of the HTTP client serves every request that waits for it, and is
\* undone by nobody but the device (client.go:222-240, signaling.go:101).
THEOREM OneLoginForAll == LinkSpec => []OneLoginServesAll
  <1>1. LoginInv => OneLoginServesAll
    BY LoginSound DEF OneLoginServesAll
  <1> QED
    BY <1>1, HasLogins, LoginInvHolds, PTL

(***************************************************************************)
(* VideoPipeline                                                           *)
(***************************************************************************)

Picture == [n: Nat, gen: Nat, chain: Nat, age: V!Ages, whole: BOOLEAN]
PipeTyped(q) ==
  /\ DOMAIN q = {"gen", "chain", "synced", "gap", "pending", "latest", "resetting",
                  "closed", "ended", "decoding", "cancelled", "decoderChain",
                  "wake", "sincePLI", "asked"}
  /\ q.gen \in 1 .. MaxGen /\ q.chain \in Nat /\ q.decoderChain \in Nat
  /\ q.pending \in Seq(V!Unit) /\ q.latest \in Picture
  /\ q.sincePLI \in 0 .. PLIInterval
  /\ {q.synced, q.gap, q.resetting, q.closed, q.ended, q.decoding, q.cancelled,
      q.wake, q.asked} \subseteq BOOLEAN

PipelineTyped ==
  /\ units \in 0 .. MaxUnits
  /\ PipeTyped(pipe)
  /\ dec \in [last: Nat, whole: BOOLEAN, held: Picture, closed: BOOLEAN]
  /\ worker \in [pc: {"top", "empty", "wait", "taken", "decode", "fed", "judge",
                      "done"},
                 unit: V!Unit \cup {V!NoUnit}, out: Picture, failed: BOOLEAN,
                 timer: BOOLEAN]
  /\ life.pc \in {"free", "resetting", "joining", "closed"}
  /\ life.pc = "resetting" => life.gen \in 1 .. MaxGen
  /\ obs \in [Observers -> [pc: {"idle", "waiting", "got"}, gen: Nat,
                            bound: V!Ages, picture: Picture]]
  /\ inputAge \in V!Ages

\* The worker has a unit; it has one still to be fed to the decoder.
Busy == worker.pc \in {"taken", "decode", "fed", "judge"}
Coming == worker.pc \in {"taken", "decode"}
\* Its unit is of the present chain.
OfChain == worker.unit.chain = pipe.chain

\* Chains follow each other, from the decoder over the worker to the queue, and
\* a chain belongs to one generation.
ChainsInOrder ==
  /\ Len(pipe.pending) <= MaxPending
  /\ \A i \in DOMAIN pipe.pending :
       pipe.pending[i].chain = pipe.chain /\ pipe.pending[i].gen = pipe.gen
  /\ pipe.decoderChain <= pipe.chain
  /\ Busy => /\ worker.unit \in V!Unit /\ worker.unit.chain <= pipe.chain
             /\ OfChain => worker.unit.gen = pipe.gen
  /\ Coming => pipe.decoderChain <= worker.unit.chain
  /\ worker.pc = "fed" /\ OfChain /\ ~worker.failed =>
       pipe.decoderChain = pipe.chain

\* A reset has broken the chain, and nothing of the next one is there yet.
ResetVoids ==
  /\ pipe.resetting <=> life.pc = "resetting"
  /\ pipe.closed => life.pc \in {"joining", "closed"}
  /\ life.pc \in {"joining", "closed"} => pipe.closed
  /\ pipe.resetting => /\ pipe.pending = <<>> /\ ~pipe.synced
                       /\ pipe.latest = V!NoPicture
                       /\ pipe.decoderChain < pipe.chain
                       /\ Busy => worker.unit.chain < pipe.chain

\* The decoder can make a whole picture of the unit.
Ready(u) ==
  u.key \/ (pipe.decoderChain = pipe.chain /\ dec.whole /\ u.n = dec.last + 1)

\* The worker is about to break the chain.
Doomed == worker.pc \in {"fed", "judge"} /\ worker.failed /\ OfChain

\* What is fed to the decoder within a chain is an IDR or follows what was fed
\* before it; what arrives next, if nothing is lost, will follow the last.
InLine ==
  ~pipe.closed /\ ~Doomed =>
    /\ Coming /\ OfChain => Ready(worker.unit)
    /\ pipe.pending # <<>> =>
         \/ pipe.pending[1].key
         \/ IF Coming /\ OfChain THEN pipe.pending[1].n = worker.unit.n + 1
                                 ELSE Ready(pipe.pending[1])
    /\ \A i \in 1 .. Len(pipe.pending) - 1 :
         pipe.pending[i + 1].n = pipe.pending[i].n + 1
    /\ pipe.synced /\ ~pipe.gap /\ V!Live =>
         IF pipe.pending # <<>> THEN pipe.pending[Len(pipe.pending)].n = units
         ELSE IF Coming /\ OfChain THEN worker.unit.n = units
         ELSE pipe.decoderChain = pipe.chain /\ dec.whole /\ dec.last = units

\* What the decoder keeps back or gives out was made in its chain, of all it was
\* predicted from.
MadeWhole ==
  /\ dec.held # V!NoPicture =>
       /\ dec.held.chain = pipe.decoderChain
       /\ pipe.decoderChain = pipe.chain /\ ~pipe.closed => dec.held.whole
  /\ worker.pc = "fed" /\ OfChain /\ ~worker.failed /\ ~pipe.closed
       /\ worker.out # V!NoPicture => worker.out.whole /\ worker.out.chain = pipe.chain

\* A call has waited exactly as long as it is since the last input.
Waits ==
  \A o \in Observers : obs[o].pc # "idle" => obs[o].bound = inputAge

PipelineInv ==
  /\ PipelineTyped
  /\ ChainsInOrder
  /\ ResetVoids
  /\ InLine
  /\ MadeWhole
  /\ V!ShownWhole
  /\ Waits
  /\ V!ObservedAfterInput

------------------------------------------------------------------------------

LEMMA VideoBounds ==
  /\ MaxPending \in Nat \ {0} /\ Freshness \in Nat /\ PLIInterval \in Nat \ {0}
  /\ MaxUnits \in Nat /\ MaxGen \in Nat \ {0} /\ MaxChain \in Nat
  BY LinkAssumption DEF LinkAssumption, V!BoundsAssumption

LEMMA NothingTyped ==
  /\ V!NoPicture \in Picture
  /\ V!NewDecoder \in [last: Nat, whole: BOOLEAN, held: Picture, closed: BOOLEAN]
  /\ [V!NewDecoder EXCEPT !.closed = TRUE]
       \in [last: Nat, whole: BOOLEAN, held: Picture, closed: BOOLEAN]
  /\ V!NoObserver \in [pc: {"idle", "waiting", "got"}, gen: Nat,
                       bound: V!Ages, picture: Picture]
  <1>1. 0 \in V!Ages
    BY VideoBounds DEF V!Ages
  <1>2. V!NoPicture \in Picture
    BY <1>1 DEF V!NoPicture, Picture
  <1>3. V!NewDecoder \in [last: Nat, whole: BOOLEAN, held: Picture, closed: BOOLEAN]
    BY <1>2 DEF V!NewDecoder
  <1> QED
    BY <1>1, <1>2, <1>3 DEF V!NoObserver

\* Growing older leaves a picture or a unit what it is.
LEMMA AgedPicture ==
  ASSUME NEW x \in Picture
  PROVE  /\ V!Aged(x) \in Picture
         /\ V!Aged(x).whole = x.whole /\ V!Aged(x).chain = x.chain
         /\ V!Aged(x).gen = x.gen /\ V!Aged(x).n = x.n
         /\ V!Aged(x) # V!NoPicture <=> x # V!NoPicture
         /\ \A b \in V!Ages : x.age <= b => V!Aged(x).age <= V!Older(b)
  <1>0. \A a \in V!Ages : V!Older(a) \in V!Ages
    BY VideoBounds DEF V!Older, V!Ages
  <1>1. \A a, b \in V!Ages : a <= b => V!Older(a) <= V!Older(b) /\ a <= V!Older(b)
    BY VideoBounds DEF V!Older, V!Ages
  <1>2. x.age \in V!Ages /\ x.n \in Nat
    BY DEF Picture
  <1>3. CASE x.n = 0
    <2>1. V!Aged(x) = x
      BY <1>3 DEF V!Aged
    <2> QED
      BY <1>1, <1>2, <2>1
  <1>4. CASE x.n # 0
    <2>1. PICK r : r = V!Aged(x)
      OBVIOUS
    <2>2. r = [x EXCEPT !.age = V!Older(x.age)]
      BY <1>4, <2>1 DEF V!Aged
    <2>3. V!Older(x.age) \in V!Ages
      BY <1>0, <1>2
    <2>4. /\ r \in Picture /\ r.whole = x.whole /\ r.chain = x.chain
          /\ r.gen = x.gen /\ r.n = x.n /\ r.age = V!Older(x.age)
      BY <2>2, <2>3 DEF Picture
    <2>5. x # V!NoPicture /\ r # V!NoPicture
      BY <1>4, <2>4 DEF V!NoPicture
    <2> QED
      BY <1>1, <1>2, <2>1, <2>4, <2>5
  <1> QED
    BY <1>2, <1>3, <1>4

LEMMA AgedUnit ==
  ASSUME NEW x \in V!Unit \cup {V!NoUnit}
  PROVE  /\ V!Aged(x) \in V!Unit \cup {V!NoUnit}
         /\ x \in V!Unit => V!Aged(x) \in V!Unit
         /\ V!Aged(x).key = x.key /\ V!Aged(x).chain = x.chain
         /\ V!Aged(x).gen = x.gen /\ V!Aged(x).n = x.n
  <1>1. \A a \in V!Ages : V!Older(a) \in V!Ages
    BY VideoBounds DEF V!Older, V!Ages
  <1> QED
    BY <1>1 DEF V!Unit, V!NoUnit, V!Aged

\* What breakChain and a queue with or without room make of the pipeline.
LEMMA Breaks ==
  ASSUME NEW q, PipeTyped(q), NEW r, r = V!BreakChain(q)
  PROVE  /\ PipeTyped(r)
         /\ r.chain = q.chain + 1 /\ ~r.synced /\ r.pending = <<>>
         /\ r.latest = V!NoPicture
         /\ r.gen = q.gen /\ r.gap = q.gap /\ r.decoderChain = q.decoderChain
         /\ r.resetting = q.resetting /\ r.closed = q.closed /\ r.ended = q.ended
  BY NothingTyped DEF V!BreakChain, PipeTyped

LEMMA Queues ==
  ASSUME NEW q, PipeTyped(q), NEW u \in V!Unit, NEW r, r = V!Queued(q, u),
         Len(q.pending) < MaxPending
  PROVE  /\ PipeTyped(r)
         /\ r.pending = Append(q.pending, [u EXCEPT !.chain = q.chain])
         /\ r.chain = q.chain /\ r.synced = q.synced /\ r.latest = q.latest
         /\ r.gen = q.gen /\ r.gap = q.gap /\ r.decoderChain = q.decoderChain
         /\ r.resetting = q.resetting /\ r.closed = q.closed /\ r.ended = q.ended
  <1>1. [u EXCEPT !.chain = q.chain] \in V!Unit
    BY DEF V!Unit, PipeTyped
  <1>2. r = [q EXCEPT !.pending = Append(@, [u EXCEPT !.chain = q.chain]),
                      !.wake = TRUE]
    BY VideoBounds DEF V!Queued, PipeTyped
  <1> QED
    BY <1>1, <1>2 DEF PipeTyped

------------------------------------------------------------------------------

\* What a step that neither takes, feeds nor breaks anything leaves alone.
SameChain(q, r) ==
  /\ r.gen = q.gen /\ r.chain = q.chain /\ r.synced = q.synced /\ r.gap = q.gap
  /\ r.latest = q.latest /\ r.decoderChain = q.decoderChain
  /\ r.resetting = q.resetting
SameQueue(q, r) ==
  r.pending = q.pending /\ r.closed = q.closed /\ r.ended = q.ended

Steady ==
  /\ PipeTyped(pipe') /\ SameChain(pipe, pipe')
  /\ pipe'.pending = pipe.pending \/ (pipe'.pending = <<>> /\ pipe'.ended)
  /\ (pipe.closed => pipe'.closed) /\ (pipe.ended => pipe'.ended)
  /\ UNCHANGED <<units, dec>>
  /\ worker'.unit = worker.unit /\ worker'.failed = worker.failed
  /\ worker'.out = worker.out
  /\ worker'.pc = worker.pc \/ (~Busy /\ ~Busy')

LEMMA SteadyKeeps ==
  ASSUME PipelineInv, Steady
  PROVE  /\ ChainsInOrder' /\ InLine' /\ MadeWhole' /\ V!ShownWhole'
         /\ pipe'.closed = pipe.closed /\ life' = life => ResetVoids'
  <1>0. PipeTyped(pipe) /\ PipeTyped(pipe')
    BY DEF PipelineInv, PipelineTyped, Steady
  <1>1. /\ pipe'.gen = pipe.gen /\ pipe'.chain = pipe.chain
        /\ pipe'.synced = pipe.synced /\ pipe'.gap = pipe.gap
        /\ pipe'.latest = pipe.latest /\ pipe'.decoderChain = pipe.decoderChain
        /\ pipe'.resetting = pipe.resetting
        /\ \/ pipe'.pending = pipe.pending
           \/ pipe'.pending = <<>> /\ pipe'.ended
        /\ pipe.closed => pipe'.closed
        /\ pipe.ended => pipe'.ended
    BY <1>0 DEF Steady, SameChain, PipeTyped
  <1>2. worker.pc # worker'.pc =>
          /\ worker.pc \notin {"taken", "decode", "fed", "judge"}
          /\ worker'.pc \notin {"taken", "decode", "fed", "judge"}
    BY DEF Steady, Busy
  <1>3. ChainsInOrder'
    BY <1>1, <1>2, VideoBounds
       DEF PipelineInv, Steady, ChainsInOrder, Busy, Coming, OfChain
  <1>4. InLine'
    BY <1>1, <1>2
       DEF PipelineInv, Steady, InLine, Doomed, OfChain, Coming, Ready, V!Live
  <1>5. MadeWhole' /\ V!ShownWhole'
    BY <1>1, <1>2 DEF PipelineInv, Steady, MadeWhole, V!ShownWhole, OfChain
  <1>6. pipe'.closed = pipe.closed /\ life' = life => ResetVoids'
    BY <1>1, <1>2 DEF PipelineInv, Steady, ResetVoids, Busy
  <1> QED
    BY <1>3, <1>4, <1>5, <1>6

LEMMA Asks ==
  ASSUME NEW q, PipeTyped(q), NEW r, r = V!AskKeyframe(q)
  PROVE  PipeTyped(r) /\ SameChain(q, r) /\ SameQueue(q, r)
  <1>1. 0 \in 0 .. PLIInterval
    BY VideoBounds
  <1> QED
    BY <1>1 DEF V!AskKeyframe, PipeTyped, SameChain, SameQueue

\* Steps of the stream's end, of an idle worker, and requests for a keyframe.
LEMMA IdleKeeps ==
  ASSUME PipelineInv,
         V!EndStream \/ V!WorkerEmpty \/ V!WorkerWake \/ V!LoseRequest
  PROVE  PipelineInv'
  <1>0. PipelineTyped /\ PipeTyped(pipe) /\ <<>> \in Seq(V!Unit)
    BY DEF PipelineInv, PipelineTyped
  <1>1. Steady /\ UNCHANGED <<life, obs, inputAge>> /\ pipe'.closed = pipe.closed
    <2>1. CASE V!EndStream
      BY <1>0, <2>1 DEF V!EndStream, Steady, SameChain, PipeTyped
    <2>2. CASE V!WorkerEmpty
      <3>1. PipeTyped(pipe') /\ SameChain(pipe, pipe') /\ SameQueue(pipe, pipe')
        BY <1>0, <2>2, Asks DEF V!WorkerEmpty, SameChain, SameQueue
      <3> QED
        BY <1>0, <2>2, <3>1
           DEF V!WorkerEmpty, Steady, PipelineTyped, Busy, SameQueue
    <2>3. CASE V!WorkerWake
      <3>1. /\ PipeTyped(pipe')
            /\ SameChain(pipe, pipe')
            /\ pipe'.closed = pipe.closed /\ pipe'.ended = pipe.ended
            /\ pipe'.pending = pipe.pending \/ (pipe'.pending = <<>> /\ pipe'.ended)
        BY <1>0, <2>3 DEF V!WorkerWake, PipeTyped, SameChain
      <3>2. /\ worker.pc = "wait" /\ worker'.pc \in {"top", "done"}
            /\ worker'.unit = worker.unit /\ worker'.failed = worker.failed
            /\ worker'.out = worker.out
            /\ UNCHANGED <<units, dec, life, obs, inputAge>>
        BY <1>0, <2>3 DEF V!WorkerWake, PipelineTyped
      <3> QED
        BY <1>0, <3>1, <3>2 DEF Steady, Busy
    <2>4. CASE V!LoseRequest
      BY <1>0, <2>4 DEF V!LoseRequest, Steady, SameChain, PipeTyped
    <2> QED
      BY <2>1, <2>2, <2>3, <2>4
  <1>2. worker' \in [pc: {"top", "empty", "wait", "taken", "decode", "fed",
                          "judge", "done"},
                     unit: V!Unit \cup {V!NoUnit}, out: Picture,
                     failed: BOOLEAN, timer: BOOLEAN]
    <2>1. (~pipe.synced /\ ~pipe.resetting) \in BOOLEAN
      OBVIOUS
    <2> QED
      BY <1>0, <2>1 DEF PipelineTyped, V!EndStream, V!WorkerEmpty, V!WorkerWake,
                   V!LoseRequest
  <1>3. PipelineTyped'
    BY <1>0, <1>1, <1>2 DEF PipelineTyped, Steady
  <1>4. Waits' /\ V!ObservedAfterInput'
    BY <1>1 DEF PipelineInv, Waits, V!ObservedAfterInput
  <1> QED
    BY <1>1, <1>3, <1>4, SteadyKeeps DEF PipelineInv

\* Steps of observers, and the end of an input.
LEMMA ObserversKeep ==
  ASSUME PipelineInv,
         \/ V!Input
         \/ \E o \in Observers : V!Observe(o) \/ V!Await(o) \/ V!Leave(o)
  PROVE  PipelineInv'
  <1>0. /\ PipelineTyped /\ PipeTyped(pipe) /\ pipe.gen \in Nat
        /\ pipe.latest \in Picture
    BY VideoBounds DEF PipelineInv, PipelineTyped, PipeTyped
  <1>a. 0 \in V!Ages /\ V!Ages \subseteq Nat
    BY VideoBounds DEF V!Ages
  <1> DEFINE Observer == [pc: {"idle", "waiting", "got"}, gen: Nat,
                          bound: V!Ages, picture: Picture]
  <1>1. /\ Steady /\ UNCHANGED <<life, worker>>
    <2>1. SameChain(pipe, pipe') /\ SameQueue(pipe, pipe') /\ PipeTyped(pipe')
      BY <1>0, Asks, ZenonT(40)
         DEF V!Input, V!Observe, V!Await, V!Leave, SameChain, SameQueue
    <2> QED
      BY <2>1 DEF V!Input, V!Observe, V!Await, V!Leave, Steady, SameQueue
  <1>2. /\ inputAge' \in V!Ages /\ obs' \in [Observers -> Observer]
        /\ Waits' /\ V!ObservedAfterInput'
    <2>0. /\ obs \in [Observers -> Observer] /\ inputAge \in V!Ages
          /\ Waits /\ V!ObservedAfterInput
      BY <1>0 DEF PipelineTyped, PipelineInv
    <2>1. CASE V!Input
      BY <2>0, <2>1, <1>a DEF V!Input, Waits, V!ObservedAfterInput
    <2>2. ASSUME NEW o \in Observers, V!Observe(o)
          PROVE  /\ inputAge' \in V!Ages /\ obs' \in [Observers -> Observer]
                 /\ Waits' /\ V!ObservedAfterInput'
      BY <1>0, <2>0, <2>2, NothingTyped
         DEF V!Observe, Waits, V!ObservedAfterInput
    <2>3. ASSUME NEW o \in Observers, V!Leave(o)
          PROVE  /\ inputAge' \in V!Ages /\ obs' \in [Observers -> Observer]
                 /\ Waits' /\ V!ObservedAfterInput'
      <3>1. V!NoObserver \in Observer /\ V!NoObserver.pc = "idle"
        BY NothingTyped DEF V!NoObserver
      <3> QED
        BY <2>0, <2>3, <3>1 DEF V!Leave, Waits, V!ObservedAfterInput
    <2>4. ASSUME NEW o \in Observers, V!Await(o)
          PROVE  /\ inputAge' \in V!Ages /\ obs' \in [Observers -> Observer]
                 /\ Waits' /\ V!ObservedAfterInput'
      <3>1. CASE obs' = obs
        BY <2>0, <2>4, <3>1 DEF V!Await, Waits, V!ObservedAfterInput
      <3>2. CASE /\ obs' = [obs EXCEPT ![o].pc = "got", ![o].picture = pipe.latest]
                 /\ pipe.latest # V!NoPicture
                 /\ pipe.latest.age <= obs[o].bound
        <4>1. pipe.latest.whole /\ pipe.latest.gen = obs[o].gen /\ obs[o].pc = "waiting"
          BY <2>4, <3>2 DEF V!Await, PipelineInv, V!ShownWhole
        <4> QED
          BY <1>0, <2>0, <2>4, <3>2, <4>1 DEF V!Await, Waits, V!ObservedAfterInput
      <3> QED
        BY <2>4, <3>1, <3>2 DEF V!Await
    <2> QED
      BY <2>1, <2>2, <2>3, <2>4
  <1>3. PipelineTyped'
    BY <1>0, <1>1, <1>2 DEF PipelineTyped, Steady
  <1>4. pipe'.closed = pipe.closed
    BY <1>0, Asks DEF V!Input, V!Observe, V!Await, V!Leave, SameQueue
  <1> QED
    BY <1>1, <1>2, <1>3, <1>4, SteadyKeeps DEF PipelineInv

WorkerSet ==
  [pc: {"top", "empty", "wait", "taken", "decode", "fed", "judge", "done"},
   unit: V!Unit \cup {V!NoUnit}, out: Picture, failed: BOOLEAN, timer: BOOLEAN]
DecoderSet == [last: Nat, whole: BOOLEAN, held: Picture, closed: BOOLEAN]

\* The parts of the invariant, where a step leaves the observers alone.
LEMMA PartsKept ==
  ASSUME PipelineInv, UNCHANGED <<obs, inputAge>>,
         units' \in 0 .. MaxUnits, PipeTyped(pipe'), dec' \in DecoderSet,
         worker' \in WorkerSet, life'.pc \in {"free", "resetting", "joining", "closed"},
         life'.pc = "resetting" => life'.gen \in 1 .. MaxGen,
         ChainsInOrder', ResetVoids', InLine', MadeWhole', V!ShownWhole'
  PROVE  PipelineInv'
  <1>1. PipelineTyped'
    BY DEF PipelineInv, PipelineTyped, WorkerSet, DecoderSet
  <1> QED
    BY <1>1 DEF PipelineInv, Waits, V!ObservedAfterInput

LEMMA Typing ==
  ASSUME PipelineInv
  PROVE  /\ units \in 0 .. MaxUnits /\ PipeTyped(pipe) /\ dec \in DecoderSet
         /\ worker \in WorkerSet
         /\ life.pc \in {"free", "resetting", "joining", "closed"}
         /\ life.pc = "resetting" => life.gen \in 1 .. MaxGen
         /\ <<>> \in Seq(V!Unit) /\ pipe.pending \in Seq(V!Unit)
         /\ pipe.chain \in Nat /\ pipe.decoderChain \in Nat
  BY DEF PipelineInv, PipelineTyped, WorkerSet, DecoderSet, PipeTyped

LEMMA CloseKeeps ==
  ASSUME PipelineInv, V!StartClose \/ V!FinishClose
  PROVE  PipelineInv'
  <1>1. CASE V!StartClose
    <2>1. PipeTyped(pipe')
      BY <1>1, Typing DEF V!StartClose, PipeTyped
    <2>2. Steady /\ pipe'.closed
      BY <1>1, Typing, <2>1 DEF V!StartClose, Steady, SameChain, PipeTyped
    <2>3. ResetVoids'
      BY <1>1, <2>2 DEF V!StartClose, PipelineInv, ResetVoids, Steady, SameChain
    <2> QED
      BY <1>1, <2>1, <2>2, <2>3, Typing, SteadyKeeps, PartsKept DEF V!StartClose
  <1>2. CASE V!FinishClose
    <2>1. /\ life.pc = "joining" /\ worker.pc = "done" /\ life'.pc = "closed"
          /\ dec' = [V!NewDecoder EXCEPT !.closed = TRUE]
          /\ UNCHANGED <<units, pipe, worker, obs, inputAge>>
      BY <1>2 DEF V!FinishClose
    <2>2. dec' \in DecoderSet /\ dec'.held = V!NoPicture
      BY <2>1, NothingTyped DEF DecoderSet, V!NewDecoder
    <2>3. pipe.closed /\ ResetVoids'
      BY <2>1 DEF PipelineInv, ResetVoids, Busy
    <2>4. ChainsInOrder' /\ InLine' /\ MadeWhole' /\ V!ShownWhole'
      BY <2>1, <2>2, <2>3
         DEF PipelineInv, ChainsInOrder, InLine, MadeWhole, V!ShownWhole, Busy,
             Coming, OfChain
    <2> QED
      BY <2>1, <2>2, <2>3, <2>4, Typing, PartsKept
  <1> QED
    BY <1>1, <1>2

\* The worker goes on to the next unit, or stops.
LEMMA TopKeeps ==
  ASSUME PipelineInv, V!WorkerTop
  PROVE  PipelineInv'
  <1>0. /\ worker.pc = "top"
        /\ UNCHANGED <<units, dec, life, obs, inputAge>>
    BY DEF V!WorkerTop
  <1>1. CASE ~V!Live
    <2>1. /\ worker' = [worker EXCEPT !.pc = "done"]
          /\ pipe' = [pipe EXCEPT !.pending = <<>>]
      BY <1>1 DEF V!WorkerTop
    <2>2. /\ PipeTyped(pipe') /\ SameChain(pipe, pipe') /\ pipe'.pending = <<>>
          /\ pipe'.closed = pipe.closed /\ pipe'.ended = pipe.ended
      BY Typing, <2>1 DEF PipeTyped, SameChain
    <2>3. worker' \in WorkerSet
      BY Typing, <2>1 DEF WorkerSet
    <2>4. worker'.pc = "done"
      BY Typing, <2>1 DEF WorkerSet
    <2>5. pipe.gen = pipe'.gen /\ pipe'.chain = pipe.chain
          /\ pipe'.latest = pipe.latest /\ pipe'.decoderChain = pipe.decoderChain
          /\ pipe'.resetting = pipe.resetting /\ pipe'.synced = pipe.synced
          /\ ~V!Live'
      BY <1>1, <2>2 DEF SameChain, V!Live
    <2>6. ChainsInOrder' /\ ResetVoids' /\ InLine' /\ MadeWhole' /\ V!ShownWhole'
      BY <1>0, <2>2, <2>4, <2>5, VideoBounds
         DEF PipelineInv, ChainsInOrder, ResetVoids, InLine, MadeWhole,
             V!ShownWhole, Busy, Coming, OfChain
    <2> QED
      BY <1>0, <2>2, <2>3, <2>6, Typing, PartsKept
  <1>2. CASE V!Live /\ ~(~pipe.resetting /\ pipe.pending # <<>>)
    <2>1. worker' = [worker EXCEPT !.pc = "empty"] /\ pipe' = pipe
      BY <1>2 DEF V!WorkerTop
    <2>2. worker' \in WorkerSet
      BY Typing, <2>1 DEF WorkerSet
    <2>3. Steady
      BY Typing, <1>0, <2>1 DEF WorkerSet, Steady, SameChain, Busy
    <2> QED
      BY <1>0, <2>1, <2>2, <2>3, Typing, SteadyKeeps, PartsKept
  <1>3. CASE V!Live /\ ~pipe.resetting /\ pipe.pending # <<>>
    <2>1. /\ worker' = [worker EXCEPT !.pc = "taken", !.unit = Head(pipe.pending)]
          /\ pipe' = [pipe EXCEPT !.pending = Tail(@)]
      BY <1>3 DEF V!WorkerTop
    <2>2. /\ Head(pipe.pending) \in V!Unit /\ Head(pipe.pending) = pipe.pending[1]
          /\ Tail(pipe.pending) \in Seq(V!Unit) /\ 1 \in DOMAIN pipe.pending
          /\ Len(Tail(pipe.pending)) = Len(pipe.pending) - 1
          /\ \A i \in DOMAIN Tail(pipe.pending) :
               /\ i + 1 \in DOMAIN pipe.pending /\ i \in Nat \ {0}
               /\ Tail(pipe.pending)[i] = pipe.pending[i + 1]
      BY <1>3, Typing
    <2>3. /\ PipeTyped(pipe') /\ SameChain(pipe, pipe')
          /\ pipe'.pending = Tail(pipe.pending)
          /\ pipe'.closed = pipe.closed /\ pipe'.ended = pipe.ended
      BY Typing, <2>1, <2>2 DEF PipeTyped, SameChain
    <2>4. worker' \in WorkerSet /\ worker'.pc = "taken"
          /\ worker'.unit = pipe.pending[1]
      BY Typing, <2>1, <2>2 DEF WorkerSet
    <2>5. pipe.gen = pipe'.gen /\ pipe'.chain = pipe.chain
          /\ pipe'.latest = pipe.latest /\ pipe'.decoderChain = pipe.decoderChain
          /\ pipe'.resetting = pipe.resetting /\ pipe'.synced = pipe.synced
          /\ pipe'.gap = pipe.gap
      BY <2>3 DEF SameChain
    <2>6. ChainsInOrder'
      BY <1>0, <2>2, <2>3, <2>4, <2>5, Typing, VideoBounds
         DEF PipelineInv, ChainsInOrder, Busy, Coming, OfChain
    <2>7. InLine'
      <3> DEFINE s == pipe.pending
                 t == pipe'.pending
      <3>1. /\ s \in Seq(V!Unit) /\ t \in Seq(V!Unit) /\ Len(t) = Len(s) - 1
            /\ \A i \in 1 .. Len(t) : t[i] = s[i + 1]
        BY <2>2, <2>3, Typing
      <3>2. /\ Len(s) \in Nat \ {0} /\ Len(t) \in Nat
            /\ DOMAIN t = 1 .. Len(t) /\ DOMAIN s = 1 .. Len(s)
            /\ t # <<>> => Len(t) > 0
        BY <1>3, <3>1, EmptySeq
      <3>3. s[1].chain = pipe.chain /\ worker'.unit = s[1] /\ OfChain'
        BY <2>2, <2>4, <2>5 DEF PipelineInv, ChainsInOrder, OfChain
      <3>4. ~Coming /\ ~Doomed /\ Coming' /\ ~Doomed'
        BY <1>0, <2>4 DEF Coming, Doomed
      <3>5. InLine /\ pipe'.closed = pipe.closed /\ (V!Live' => V!Live) /\ s # <<>>
        BY <1>3, <2>3 DEF PipelineInv, V!Live
      <3>6. ASSUME ~pipe.closed
            PROVE  /\ Ready(s[1])
                   /\ \A i \in 1 .. Len(s) - 1 : s[i + 1].n = s[i].n + 1
                   /\ pipe.synced /\ ~pipe.gap /\ V!Live => s[Len(s)].n = units
        BY <3>2, <3>4, <3>5, <3>6 DEF InLine, Ready
      <3>7. t # <<>> => t[1] = s[2] /\ t[Len(t)] = s[Len(s)]
        BY <3>1, <3>2
      <3>8. \A i \in 1 .. Len(t) - 1 : t[i + 1] = s[(i + 1) + 1] /\ t[i] = s[i + 1]
        <4>1. \A i \in 1 .. Len(t) - 1 : i \in 1 .. Len(t) /\ i + 1 \in 1 .. Len(t)
          BY <3>2
        <4> HIDE DEF s, t
        <4> QED
          BY <3>1, <4>1
      <3>9. PICK u : u = s[1]
        OBVIOUS
      <3>10. Ready(u)' <=> Ready(u)
        BY <1>0, <2>5 DEF Ready
      <3>11. t = <<>> => Len(s) = 1
        BY <3>1, <3>2
      <3>12. Len(s) > 1 => 1 \in 1 .. Len(s) - 1
        BY <3>2
      <3>13. \A i \in 1 .. Len(t) - 1 : i + 1 \in 1 .. Len(s) - 1
        BY <3>1, <3>2
      <3>14. ASSUME ~pipe.closed
             PROVE  /\ Ready(u)
                    /\ t # <<>> => t[1].n = u.n + 1
                    /\ \A i \in 1 .. Len(t) - 1 : t[i + 1].n = t[i].n + 1
                    /\ pipe.synced /\ ~pipe.gap /\ V!Live =>
                         IF t # <<>> THEN t[Len(t)].n = units ELSE u.n = units
        <4>1. Ready(u)
          BY <3>6, <3>9, <3>14
        <4>2. t # <<>> => t[1].n = u.n + 1
          BY <3>1, <3>2, <3>6, <3>7, <3>9, <3>12, <3>14
        <4>3. \A i \in 1 .. Len(t) - 1 : t[i + 1].n = t[i].n + 1
          BY <3>6, <3>8, <3>13, <3>14
        <4>4. pipe.synced /\ ~pipe.gap /\ V!Live =>
                IF t # <<>> THEN t[Len(t)].n = units ELSE u.n = units
          BY <3>6, <3>7, <3>9, <3>11, <3>14
        <4> QED
          BY <4>1, <4>2, <4>3, <4>4
      <3>15. worker'.unit = u /\ UNCHANGED units
        BY <1>0, <3>3, <3>9
      <3> QED
        BY <2>5, <3>3, <3>4, <3>5, <3>10, <3>14, <3>15 DEF InLine
    <2>8. ResetVoids' /\ MadeWhole' /\ V!ShownWhole'
      BY <1>0, <1>3, <2>2, <2>3, <2>4, <2>5
         DEF PipelineInv, ResetVoids, MadeWhole, V!ShownWhole, OfChain, Busy
    <2> QED
      BY <1>0, <2>3, <2>4, <2>6, <2>7, <2>8, Typing, PartsKept
  <1> QED
    BY <1>1, <1>2, <1>3

\* A unit that is not current though its chain is the present one came to a
\* pipeline that is closed.
LEMMA NotCurrent ==
  ASSUME PipelineInv, Busy
  PROVE  V!Current(worker.unit) <=> OfChain /\ ~pipe.closed
  BY Typing DEF PipelineInv, ChainsInOrder, ResetVoids, V!Current, OfChain

LEMMA StartKeeps ==
  ASSUME PipelineInv, V!WorkerStart
  PROVE  PipelineInv'
  <1>0. /\ worker.pc = "taken" /\ Busy
        /\ UNCHANGED <<units, dec, life, obs, inputAge>>
    BY DEF V!WorkerStart, Busy
  <1>1. /\ PipeTyped(pipe') /\ SameChain(pipe, pipe') /\ SameQueue(pipe, pipe')
        /\ worker' \in WorkerSet /\ worker'.unit = worker.unit
        /\ worker'.out = worker.out
        /\ \/ worker'.pc = "decode" /\ worker'.failed = worker.failed
           \/ worker'.pc = "judge" /\ worker'.failed /\ ~V!Current(worker.unit)
    <2>1. CASE V!Current(worker.unit)
      <3>1. /\ pipe' = [pipe EXCEPT !.decoding = TRUE, !.cancelled = pipe.ended]
            /\ worker' = [worker EXCEPT !.pc = "decode"]
        BY <2>1 DEF V!WorkerStart
      <3>2. PipeTyped(pipe') /\ SameChain(pipe, pipe') /\ SameQueue(pipe, pipe')
        BY <3>1, Typing DEF PipeTyped, SameChain, SameQueue
      <3> QED
        BY <3>1, <3>2, Typing DEF WorkerSet
    <2>2. CASE ~V!Current(worker.unit)
      <3>1. pipe' = pipe /\ worker' = [worker EXCEPT !.pc = "judge", !.failed = TRUE]
        BY <2>2 DEF V!WorkerStart
      <3> QED
        BY <2>2, <3>1, Typing DEF WorkerSet, SameChain, SameQueue
    <2> QED
      BY <2>1, <2>2
  <1>2. worker'.pc = "judge" => ~OfChain \/ pipe.closed
    BY <1>0, <1>1, NotCurrent
  <1>3. OfChain' <=> OfChain
    BY <1>1 DEF OfChain, SameChain
  <1>4. ChainsInOrder'
    BY <1>0, <1>1, <1>3, Typing
       DEF PipelineInv, ChainsInOrder, Busy, Coming, SameChain, SameQueue
  <1>5. ResetVoids' /\ V!ShownWhole'
    BY <1>0, <1>1, Typing
       DEF PipelineInv, ResetVoids, V!ShownWhole, Busy, SameChain, SameQueue
  <1>6. InLine'
    BY <1>0, <1>1, <1>2, <1>3
       DEF PipelineInv, InLine, Doomed, Coming, Ready, V!Live, SameChain, SameQueue
  <1>7. MadeWhole'
    BY <1>0, <1>1, <1>3 DEF PipelineInv, MadeWhole, SameChain, SameQueue
  <1> QED
    BY <1>0, <1>1, <1>4, <1>5, <1>6, <1>7, Typing, PartsKept

\* What the decoder holds once it was fed.
LEMMA Feeds ==
  ASSUME NEW d \in DecoderSet, NEW u \in V!Unit, NEW fresh \in BOOLEAN,
         NEW e, e = V!Fed(d, u, fresh)
  PROVE  /\ e \in DecoderSet
         /\ e.whole <=> u.key \/ (~fresh /\ d.whole /\ u.n = d.last + 1)
         /\ e.whole => e.last = u.n
         /\ e.held = IF fresh THEN V!NoPicture ELSE d.held
  <1> DEFINE b == IF fresh THEN V!NewDecoder ELSE d
             w == u.key \/ (b.whole /\ u.n = b.last + 1)
  <1>1. /\ b \in DecoderSet /\ (fresh => ~b.whole)
        /\ b.held = IF fresh THEN V!NoPicture ELSE d.held
    BY NothingTyped DEF V!NewDecoder, DecoderSet
  <1>2. e = [b EXCEPT !.last = IF w THEN u.n ELSE 0, !.whole = w]
    BY DEF V!Fed
  <1>3. u.n \in Nat /\ b.last \in Nat
    BY VideoBounds, <1>1 DEF V!Unit, DecoderSet
  <1>4. ~fresh => b = d
    OBVIOUS
  <1>5. w <=> u.key \/ (~fresh /\ d.whole /\ u.n = d.last + 1)
    BY <1>1, <1>4
  <1> HIDE DEF b
  <1>6. CASE w
    <2>1. e = [b EXCEPT !.last = u.n, !.whole = TRUE]
      BY <1>2, <1>6
    <2> HIDE DEF w
    <2>2. e \in DecoderSet /\ e.whole = TRUE /\ e.last = u.n /\ e.held = b.held
      BY <1>1, <1>3, <2>1 DEF DecoderSet
    <2> QED
      BY <1>1, <1>5, <1>6, <2>2
  <1>7. CASE ~w
    <2>1. e = [b EXCEPT !.last = 0, !.whole = FALSE]
      BY <1>2, <1>7
    <2> HIDE DEF w
    <2>2. 0 \in Nat /\ FALSE \in BOOLEAN
      OBVIOUS
    <2>3. e \in DecoderSet
      BY <1>1, <2>1, <2>2 DEF DecoderSet
    <2>4. e.whole = FALSE /\ e.held = b.held
      BY <1>1, <2>1 DEF DecoderSet
    <2> QED
      BY <1>1, <1>5, <1>7, <2>3, <2>4
  <1> QED
    BY <1>6, <1>7

LEMMA DecodeKeeps ==
  ASSUME PipelineInv, V!WorkerDecode
  PROVE  PipelineInv'
  <1> DEFINE u == worker.unit
             fresh == pipe.decoderChain # u.chain
             picture(d) == [n |-> u.n, gen |-> u.gen, chain |-> u.chain,
                            age |-> u.age, whole |-> d.whole]
  <1>0. /\ worker.pc = "decode" /\ Busy /\ Coming /\ ~Doomed
        /\ UNCHANGED <<units, life, obs, inputAge>>
        /\ u \in V!Unit /\ u.chain <= pipe.chain /\ pipe.decoderChain <= u.chain
        /\ u.chain \in Nat /\ fresh \in BOOLEAN
    BY DEF V!WorkerDecode, Busy, Coming, Doomed, PipelineInv, ChainsInOrder, V!Unit
  <1>1. PICK d : d = V!Fed(dec, u, fresh)
    OBVIOUS
  <1> HIDE DEF u, fresh
  <1>2. /\ d \in DecoderSet
        /\ d.whole <=> u.key \/ (~fresh /\ dec.whole /\ u.n = dec.last + 1)
        /\ d.whole => d.last = u.n
        /\ d.held = IF fresh THEN V!NoPicture ELSE dec.held
    BY <1>0, <1>1, Typing, Feeds
  <1>3. OfChain /\ ~pipe.closed => d.whole
    BY <1>0, <1>2 DEF PipelineInv, InLine, Ready, OfChain, u, fresh
  <1>4. PICK made : made = picture(d)
    OBVIOUS
  <1>5. /\ made \in Picture /\ made # V!NoPicture
        /\ made.chain = u.chain /\ made.whole = d.whole
    BY <1>0, <1>2, <1>4, VideoBounds DEF Picture, V!Unit, DecoderSet, V!NoPicture
  <1>6. \/ /\ worker' = [worker EXCEPT !.pc = "fed", !.failed = TRUE,
                                       !.out = V!NoPicture]
           /\ \/ dec' = d /\ pipe' = [pipe EXCEPT !.decoderChain = u.chain]
              \/ fresh /\ UNCHANGED <<dec, pipe>>
        \/ /\ worker' = [worker EXCEPT !.pc = "fed", !.failed = FALSE, !.out = made]
           /\ dec' = d /\ pipe' = [pipe EXCEPT !.decoderChain = u.chain]
        \/ /\ worker' = [worker EXCEPT !.pc = "fed", !.failed = FALSE, !.out = d.held]
           /\ dec' = [d EXCEPT !.held = made]
           /\ pipe' = [pipe EXCEPT !.decoderChain = u.chain]
    BY <1>1, <1>4 DEF V!WorkerDecode, u, fresh
  <1>7. /\ worker'.pc = "fed" /\ worker'.unit = u /\ worker' \in WorkerSet
        /\ worker'.failed \/ worker'.out \in {made, d.held}
    <2>1. d.held \in Picture
      BY <1>2 DEF DecoderSet
    <2> QED
      BY <1>5, <1>6, <2>1, Typing, NothingTyped DEF WorkerSet, u
  <1>8. /\ PipeTyped(pipe') /\ SameQueue(pipe, pipe')
        /\ pipe'.gen = pipe.gen /\ pipe'.chain = pipe.chain
        /\ pipe'.synced = pipe.synced /\ pipe'.gap = pipe.gap
        /\ pipe'.latest = pipe.latest /\ pipe'.resetting = pipe.resetting
        /\ dec' \in DecoderSet
        /\ \/ /\ pipe'.decoderChain = u.chain
              /\ dec'.whole = d.whole /\ dec'.last = d.last
              /\ dec'.held \in {d.held, made}
           \/ /\ pipe'.decoderChain = pipe.decoderChain
              /\ fresh /\ worker'.failed /\ UNCHANGED dec
    <2>1. CASE UNCHANGED <<dec, pipe>> /\ fresh /\ worker'.failed
      BY <2>1, Typing DEF SameQueue
    <2>2. CASE /\ pipe' = [pipe EXCEPT !.decoderChain = u.chain]
               /\ dec' = d \/ dec' = [d EXCEPT !.held = made]
      <3>1. /\ dec' \in DecoderSet
            /\ dec'.whole = d.whole /\ dec'.last = d.last
            /\ dec'.held \in {d.held, made}
        BY <1>2, <1>5, <2>2 DEF DecoderSet
      <3> QED
        BY <1>0, <2>2, <3>1, Typing DEF PipeTyped, SameQueue
    <2>3. \/ UNCHANGED <<dec, pipe>> /\ fresh /\ worker'.failed
          \/ /\ pipe' = [pipe EXCEPT !.decoderChain = u.chain]
             /\ dec' = d \/ dec' = [d EXCEPT !.held = made]
      BY <1>6, Typing DEF WorkerSet
    <2> QED
      BY <2>1, <2>2, <2>3
  <1>9. OfChain <=> u.chain = pipe.chain
    BY DEF OfChain, u
  <1>10. OfChain' <=> u.chain = pipe.chain
    BY <1>7, <1>8 DEF OfChain
  <1>11. ChainsInOrder'
    BY <1>0, <1>7, <1>8, <1>9, <1>10, Typing
       DEF PipelineInv, ChainsInOrder, Busy, Coming, SameQueue, u
  <1>12. ResetVoids' /\ V!ShownWhole'
    BY <1>0, <1>7, <1>8, Typing
       DEF PipelineInv, ResetVoids, V!ShownWhole, Busy, SameQueue, u
  <1>13. InLine'
    <2>1. CASE OfChain
      <3>1. ASSUME ~worker'.failed, ~pipe.closed
            PROVE  /\ pipe'.decoderChain = pipe.chain /\ dec'.whole
                   /\ dec'.last = u.n /\ InLine
        BY <1>0, <1>2, <1>3, <1>8, <1>9, <2>1, <3>1 DEF PipelineInv
      <3>2. ~Coming' /\ (Doomed' <=> worker'.failed)
        BY <1>7, <1>9, <1>10, <2>1 DEF Coming, Doomed
      <3> QED
        BY <1>0, <1>8, <2>1, <3>1, <3>2
           DEF InLine, Ready, V!Live, SameQueue, u
    <2>2. CASE ~OfChain
      <3>1. pipe.decoderChain # pipe.chain /\ pipe'.decoderChain # pipe.chain
        BY <1>0, <1>8, <1>9, <2>2, Typing
      <3> QED
        BY <1>0, <1>7, <1>8, <1>9, <1>10, <2>2, <3>1
           DEF PipelineInv, InLine, Ready, V!Live, SameQueue
    <2> QED
      BY <2>1, <2>2
  <1>14. MadeWhole'
    <2>1. dec.held # V!NoPicture =>
            /\ dec.held.chain = pipe.decoderChain
            /\ pipe.decoderChain = pipe.chain /\ ~pipe.closed => dec.held.whole
      BY DEF PipelineInv, MadeWhole
    <2>2. d.held # V!NoPicture => d.held = dec.held /\ pipe.decoderChain = u.chain
      BY <1>2 DEF fresh
    <2>3. \A x \in {d.held, made} : x # V!NoPicture =>
            /\ x.chain = u.chain
            /\ u.chain = pipe.chain /\ ~pipe.closed => x.whole
      BY <1>3, <1>5, <1>9, <2>1, <2>2
    <2>4. dec'.held # V!NoPicture =>
            /\ dec'.held.chain = pipe'.decoderChain
            /\ pipe'.decoderChain = pipe.chain /\ ~pipe.closed => dec'.held.whole
      BY <1>8, <2>1, <2>3
    <2> QED
      BY <1>7, <1>8, <1>10, <2>3, <2>4 DEF MadeWhole, SameQueue
  <1> QED
    BY <1>0, <1>7, <1>8, <1>11, <1>12, <1>13, <1>14, Typing, PartsKept

LEMMA PublishKeeps ==
  ASSUME PipelineInv, V!WorkerPublish
  PROVE  PipelineInv'
  <1>0. /\ worker.pc = "fed" /\ Busy /\ UNCHANGED <<units, dec, life, obs, inputAge>>
    BY DEF V!WorkerPublish, Busy
  <1>1. \/ /\ pipe' = [pipe EXCEPT !.decoding = FALSE, !.cancelled = FALSE,
                                   !.latest = worker.out]
           /\ OfChain /\ ~pipe.closed /\ ~worker.failed
           /\ worker.out # V!NoPicture /\ worker.out.gen = pipe.gen
        \/ pipe' = [pipe EXCEPT !.decoding = FALSE, !.cancelled = FALSE]
    <2>1. pipe' = [pipe EXCEPT !.decoding = FALSE, !.cancelled = FALSE,
                               !.latest = pipe.latest]
            => pipe' = [pipe EXCEPT !.decoding = FALSE, !.cancelled = FALSE]
      BY Typing DEF PipeTyped
    <2> QED
      BY <1>0, <2>1, NotCurrent DEF V!WorkerPublish
  <1>2. /\ PipeTyped(pipe') /\ SameQueue(pipe, pipe')
        /\ pipe'.gen = pipe.gen /\ pipe'.chain = pipe.chain
        /\ pipe'.synced = pipe.synced /\ pipe'.gap = pipe.gap
        /\ pipe'.decoderChain = pipe.decoderChain
        /\ pipe'.resetting = pipe.resetting
        /\ \/ pipe'.latest = pipe.latest
           \/ /\ pipe'.latest = worker.out /\ OfChain /\ ~pipe.closed
              /\ ~worker.failed /\ worker.out # V!NoPicture
              /\ worker.out.gen = pipe.gen
    BY <1>1, Typing, ZenonT(40) DEF PipeTyped, SameQueue, WorkerSet
  <1>3. /\ worker' \in WorkerSet /\ worker'.pc = "judge"
        /\ worker'.unit = worker.unit
        /\ worker'.failed <=> worker.failed \/ ~(OfChain /\ ~pipe.closed)
    <2>1. CASE worker.failed \/ ~V!Current(worker.unit)
      <3>1. worker' = [worker EXCEPT !.pc = "judge", !.out = V!NoPicture,
                                     !.failed = TRUE]
        BY <2>1 DEF V!WorkerPublish
      <3> QED
        BY <1>0, <2>1, <3>1, Typing, NotCurrent, NothingTyped DEF WorkerSet
    <2>2. CASE ~(worker.failed \/ ~V!Current(worker.unit))
      <3>1. worker' = [worker EXCEPT !.pc = "judge", !.out = V!NoPicture,
                                     !.failed = FALSE]
        BY <2>2 DEF V!WorkerPublish
      <3> QED
        BY <1>0, <2>2, <3>1, Typing, NotCurrent, NothingTyped DEF WorkerSet
    <2> QED
      BY <2>1, <2>2
  <1>4. OfChain' <=> OfChain
    BY <1>2, <1>3 DEF OfChain
  <1>5. ChainsInOrder'
    BY <1>0, <1>2, <1>3, <1>4 DEF PipelineInv, ChainsInOrder, Busy, Coming, SameQueue
  <1>6. ResetVoids'
    BY <1>0, <1>2, <1>3, Typing
       DEF PipelineInv, ResetVoids, Busy, OfChain, SameQueue
  <1>7. InLine'
    BY <1>0, <1>2, <1>3, <1>4
       DEF PipelineInv, InLine, Doomed, Coming, Ready, V!Live, SameQueue
  <1>8. MadeWhole' /\ V!ShownWhole'
    BY <1>0, <1>2, <1>3, <1>4 DEF PipelineInv, MadeWhole, V!ShownWhole, SameQueue
  <1> QED
    BY <1>0, <1>2, <1>3, <1>5, <1>6, <1>7, <1>8, Typing, PartsKept

\* A broken chain leaves nothing to feed, and nothing to show.
LEMMA BrokenKeeps ==
  ASSUME PipelineInv, PipeTyped(pipe'), UNCHANGED dec,
         pipe'.chain = pipe.chain + 1, pipe'.pending = <<>>, ~pipe'.synced,
         pipe'.latest = V!NoPicture, pipe'.gen = pipe.gen,
         pipe'.decoderChain = pipe.decoderChain,
         UNCHANGED worker \/ worker'.pc = "top"
  PROVE  /\ ChainsInOrder' /\ InLine' /\ MadeWhole' /\ V!ShownWhole'
         /\ pipe'.decoderChain < pipe'.chain
         /\ Busy' => worker'.unit.chain < pipe'.chain
  <1>1. pipe.decoderChain <= pipe.chain
    BY DEF PipelineInv, ChainsInOrder
  <1>2. pipe'.decoderChain < pipe'.chain
    BY <1>1, Typing
  <1>3. Busy' => /\ UNCHANGED worker /\ Busy /\ worker.unit \in V!Unit
                 /\ worker'.unit.chain <= pipe.chain
                 /\ worker'.unit.chain < pipe'.chain
    BY Typing DEF PipelineInv, ChainsInOrder, Busy, V!Unit
  <1>4. Busy' => ~OfChain'
    BY <1>3, Typing DEF OfChain, V!Unit
  <1>5. Coming' => Coming /\ UNCHANGED worker
    BY <1>3 DEF Coming
  <1>6. ChainsInOrder'
    BY <1>1, <1>3, <1>4, <1>5, Typing, VideoBounds
       DEF PipelineInv, ChainsInOrder, Busy, Coming, V!Unit
  <1>7. InLine'
    BY <1>4 DEF InLine, Busy, Coming
  <1>8. MadeWhole' /\ V!ShownWhole'
    BY <1>2, <1>4, Typing DEF PipelineInv, MadeWhole, V!ShownWhole, Busy
  <1> QED
    BY <1>2, <1>3, <1>6, <1>7, <1>8

LEMMA JudgeKeeps ==
  ASSUME PipelineInv, V!WorkerJudge
  PROVE  PipelineInv'
  <1>0. /\ worker.pc = "judge" /\ Busy /\ UNCHANGED <<units, dec, life, obs, inputAge>>
        /\ worker' = [worker EXCEPT !.pc = "top", !.unit = V!NoUnit, !.failed = FALSE]
    BY DEF V!WorkerJudge, Busy
  <1>1. worker' \in WorkerSet /\ worker'.pc = "top" /\ worker'.out = worker.out
    BY <1>0, Typing DEF WorkerSet
  <1>2. CASE worker.failed /\ V!Current(worker.unit)
    <2>1. pipe' = V!BreakChain(pipe) /\ OfChain /\ ~pipe.closed
      BY <1>0, <1>2, NotCurrent DEF V!WorkerJudge
    <2>2. ~pipe.resetting
      BY <1>2 DEF V!Current
    <2>3. /\ PipeTyped(pipe') /\ pipe'.resetting = pipe.resetting
          /\ pipe'.closed = pipe.closed
          /\ ChainsInOrder' /\ InLine' /\ MadeWhole' /\ V!ShownWhole'
      BY <1>0, <1>1, <2>1, Typing, Breaks, BrokenKeeps
    <2>4. ResetVoids'
      BY <1>0, <2>2, <2>3 DEF PipelineInv, ResetVoids
    <2> QED
      BY <1>0, <1>1, <2>3, <2>4, Typing, PartsKept
  <1>3. CASE ~(worker.failed /\ V!Current(worker.unit))
    <2>1. pipe' = pipe /\ (Doomed => pipe.closed)
      BY <1>0, <1>3, NotCurrent DEF V!WorkerJudge, Doomed
    <2>2. ChainsInOrder' /\ ResetVoids' /\ V!ShownWhole'
      BY <1>0, <1>1, <2>1
         DEF PipelineInv, ChainsInOrder, ResetVoids, V!ShownWhole, Busy, Coming
    <2>3. InLine'
      BY <1>0, <1>1, <2>1
         DEF PipelineInv, InLine, Doomed, Coming, Ready, V!Live
    <2>4. MadeWhole'
      BY <1>0, <1>1, <2>1 DEF PipelineInv, MadeWhole
    <2> QED
      BY <1>0, <1>1, <2>1, <2>2, <2>3, <2>4, Typing, PartsKept
  <1> QED
    BY <1>2, <1>3

\* Reset voids the chain at once, and begins the generation when it is done.
LEMMA ResetKeeps ==
  ASSUME PipelineInv, (\E g \in 1 .. MaxGen : V!StartReset(g)) \/ V!FinishReset
  PROVE  PipelineInv'
  <1>1. ASSUME NEW g \in 1 .. MaxGen, V!StartReset(g)
        PROVE  PipelineInv'
    <2>1. PICK r : r = V!BreakChain(pipe)
      OBVIOUS
    <2>2. /\ pipe' = [r EXCEPT !.resetting = TRUE, !.cancelled = pipe.decoding]
          /\ life' = [pc |-> "resetting", gen |-> g] /\ life.pc = "free"
          /\ ~pipe.closed /\ UNCHANGED <<units, dec, worker, obs, inputAge>>
      BY <1>1, <2>1 DEF V!StartReset
    <2>3. /\ PipeTyped(r)
          /\ r.chain = pipe.chain + 1 /\ ~r.synced /\ r.pending = <<>>
          /\ r.latest = V!NoPicture
          /\ r.gen = pipe.gen /\ r.decoderChain = pipe.decoderChain
          /\ r.closed = pipe.closed
      BY <2>1, Typing, Breaks
    <2>4. /\ PipeTyped(pipe')
          /\ pipe'.chain = pipe.chain + 1 /\ ~pipe'.synced /\ pipe'.pending = <<>>
          /\ pipe'.latest = V!NoPicture
          /\ pipe'.gen = pipe.gen /\ pipe'.decoderChain = pipe.decoderChain
          /\ pipe'.closed = pipe.closed /\ pipe'.resetting
      <3>1. PICK d \in BOOLEAN : d = pipe.decoding
        BY Typing DEF PipeTyped
      <3>2. pipe' = [r EXCEPT !.resetting = TRUE, !.cancelled = d]
        BY <2>2, <3>1
      <3>3. PipeTyped(pipe')
        BY <2>3, <3>2, ZenonT(80) DEF PipeTyped
      <3>4. /\ pipe'.chain = r.chain /\ pipe'.synced = r.synced
            /\ pipe'.pending = r.pending /\ pipe'.latest = r.latest
            /\ pipe'.gen = r.gen /\ pipe'.decoderChain = r.decoderChain
            /\ pipe'.closed = r.closed /\ pipe'.resetting
        BY <2>3, <3>2 DEF PipeTyped
      <3> QED
        BY <2>3, <3>3, <3>4
    <2>5. /\ ChainsInOrder' /\ InLine' /\ MadeWhole' /\ V!ShownWhole'
          /\ pipe'.decoderChain < pipe'.chain
          /\ Busy' => worker'.unit.chain < pipe'.chain
      BY <2>2, <2>4, BrokenKeeps
    <2>6. ResetVoids' /\ life'.pc = "resetting" /\ life'.gen = g
      BY <2>2, <2>4, <2>5 DEF ResetVoids
    <2> QED
      BY <2>2, <2>4, <2>5, <2>6, Typing, PartsKept
  <1>2. CASE V!FinishReset
    <2>1. /\ life.pc = "resetting" /\ life' = [pc |-> "free", gen |-> 0]
          /\ UNCHANGED <<units, worker, obs, inputAge>>
          /\ life.gen \in 1 .. MaxGen
      BY <1>2, Typing DEF V!FinishReset
    <2>2. /\ pipe.resetting /\ pipe.pending = <<>> /\ ~pipe.synced
          /\ pipe.latest = V!NoPicture /\ pipe.decoderChain < pipe.chain
          /\ Busy => worker.unit.chain < pipe.chain
          /\ ~pipe.closed
      BY <2>1 DEF PipelineInv, ResetVoids
    <2>3. /\ PipeTyped(pipe') /\ ~pipe'.resetting
          /\ pipe'.pending = <<>> /\ ~pipe'.synced /\ pipe'.latest = V!NoPicture
          /\ pipe'.chain = pipe.chain /\ pipe'.decoderChain = pipe.decoderChain
          /\ pipe'.closed = pipe.closed
      <3>1. PLIInterval \in 0 .. PLIInterval
        BY VideoBounds
      <3>2. CASE pipe' = [pipe EXCEPT !.resetting = FALSE, !.wake = TRUE,
                            !.gen = life.gen, !.gap = FALSE,
                            !.latest = V!NoPicture, !.sincePLI = PLIInterval]
        <4>1. PICK g \in 1 .. MaxGen : g = life.gen
          BY <2>1
        <4>2. PICK n \in Picture : n = V!NoPicture
          BY NothingTyped
        <4>3. pipe' = [pipe EXCEPT !.resetting = FALSE, !.wake = TRUE, !.gen = g,
                         !.gap = FALSE, !.latest = n, !.sincePLI = PLIInterval]
          BY <3>2, <4>1, <4>2
        <4> QED
          <5>1. PipeTyped(pipe')
            BY <3>1, <4>3, Typing DEF PipeTyped
          <5>2. /\ ~pipe'.resetting /\ pipe'.pending = pipe.pending
                /\ pipe'.synced = pipe.synced /\ pipe'.latest = n
                /\ pipe'.chain = pipe.chain /\ pipe'.closed = pipe.closed
                /\ pipe'.decoderChain = pipe.decoderChain
            BY <4>3, Typing DEF PipeTyped
          <5> QED
            BY <2>2, <4>2, <5>1, <5>2
      <3>3. CASE pipe' = [pipe EXCEPT !.resetting = FALSE, !.wake = TRUE]
        BY <2>1, <2>2, <3>3, Typing, ZenonT(40) DEF PipeTyped
      <3> QED
        BY <1>2, <3>2, <3>3 DEF V!FinishReset
    <2>4. dec' \in DecoderSet /\ (dec' = dec \/ dec'.held = V!NoPicture)
      <3>1. V!NewDecoder \in DecoderSet /\ V!NewDecoder.held = V!NoPicture
        BY NothingTyped DEF DecoderSet, V!NewDecoder
      <3>2. dec' = dec \/ dec' = V!NewDecoder
        BY <1>2 DEF V!FinishReset
      <3> QED
        BY <3>1, <3>2, Typing
    <2>5. Busy => ~OfChain'
      BY <2>1, <2>2, <2>3, Typing
         DEF PipelineInv, ChainsInOrder, V!Unit, OfChain
    <2>6. ChainsInOrder'
      BY <2>1, <2>2, <2>3, <2>5, Typing, VideoBounds
         DEF PipelineInv, ChainsInOrder, Busy, Coming
    <2>7. ResetVoids' /\ InLine'
      BY <2>1, <2>2, <2>3, <2>5 DEF ResetVoids, InLine, Coming, Busy
    <2>8. MadeWhole' /\ V!ShownWhole'
      BY <2>1, <2>2, <2>3, <2>4, <2>5, Typing
         DEF PipelineInv, MadeWhole, V!ShownWhole, Busy
    <2> QED
      BY <2>1, <2>3, <2>4, <2>6, <2>7, <2>8, Typing, PartsKept
  <1> QED
    BY <1>1, <1>2

\* A unit is lost, and the reader learns of it now or with the next one.
LEMMA MissKeeps ==
  ASSUME PipelineInv, V!Miss
  PROVE  PipelineInv'
  <1>0. /\ UNCHANGED <<dec, worker, life, obs, inputAge>>
        /\ units' \in 0 .. MaxUnits
    BY Typing, VideoBounds DEF V!Miss
  <1>1. CASE pipe' = [pipe EXCEPT !.gap = TRUE]
    <2>1. /\ PipeTyped(pipe') /\ SameQueue(pipe, pipe') /\ pipe'.gap
          /\ pipe'.gen = pipe.gen /\ pipe'.chain = pipe.chain
          /\ pipe'.decoderChain = pipe.decoderChain
          /\ pipe'.synced = pipe.synced /\ pipe'.latest = pipe.latest
          /\ pipe'.resetting = pipe.resetting
      BY <1>1, Typing DEF PipeTyped, SameQueue
    <2>2. ChainsInOrder' /\ ResetVoids' /\ V!ShownWhole'
      BY <1>0, <2>1
         DEF PipelineInv, ChainsInOrder, ResetVoids, V!ShownWhole, Busy, Coming,
             OfChain, SameQueue
    <2>3. InLine' /\ MadeWhole'
      BY <1>0, <2>1
         DEF PipelineInv, InLine, MadeWhole, Doomed, Coming, OfChain, Ready,
             V!Live, SameQueue
    <2> QED
      BY <1>0, <2>1, <2>2, <2>3, Typing, PartsKept
  <1>2. CASE pipe' = [V!BreakChain(pipe) EXCEPT !.gap = TRUE] /\ ~pipe.resetting
    <2>1. PICK r : r = V!BreakChain(pipe)
      OBVIOUS
    <2>2. /\ PipeTyped(r)
          /\ r.chain = pipe.chain + 1 /\ ~r.synced /\ r.pending = <<>>
          /\ r.latest = V!NoPicture /\ r.resetting = pipe.resetting
          /\ r.gen = pipe.gen /\ r.decoderChain = pipe.decoderChain
          /\ r.closed = pipe.closed /\ pipe' = [r EXCEPT !.gap = TRUE]
      BY <1>2, <2>1, Typing, Breaks
    <2>3. /\ PipeTyped(pipe')
          /\ pipe'.chain = pipe.chain + 1 /\ ~pipe'.synced /\ pipe'.pending = <<>>
          /\ pipe'.latest = V!NoPicture /\ pipe'.resetting = pipe.resetting
          /\ pipe'.gen = pipe.gen /\ pipe'.decoderChain = pipe.decoderChain
          /\ pipe'.closed = pipe.closed
      BY <2>2, ZenonT(40) DEF PipeTyped
    <2>4. ChainsInOrder' /\ InLine' /\ MadeWhole' /\ V!ShownWhole'
      BY <1>0, <2>3, BrokenKeeps
    <2>5. ResetVoids'
      BY <1>0, <1>2, <2>3 DEF PipelineInv, ResetVoids
    <2> QED
      BY <1>0, <2>3, <2>4, <2>5, Typing, PartsKept
  <1> QED
    BY <1>1, <1>2 DEF V!Miss

\* An IDR takes the place of the queue.
LEMMA KeyKeeps ==
  ASSUME PipelineInv, UNCHANGED <<dec, worker, life, obs, inputAge>>,
         units' \in 0 .. MaxUnits, PipeTyped(pipe'), NEW v \in V!Unit,
         pipe'.pending = <<v>>, v.key, v.n = units', v.chain = pipe'.chain,
         v.gen = pipe.gen, pipe'.gen = pipe.gen,
         \/ pipe'.chain = pipe.chain + 1 /\ pipe'.latest = V!NoPicture
         \/ pipe'.chain = pipe.chain /\ pipe'.latest = pipe.latest,
         pipe'.decoderChain = pipe.decoderChain,
         ~pipe.resetting, ~pipe'.resetting, pipe'.closed = pipe.closed,
         pipe'.ended = pipe.ended
  PROVE  PipelineInv'
  <1>1. Len(<<v>>) = 1 /\ DOMAIN <<v>> = {1} /\ <<v>>[1] = v /\ <<v>> # <<>>
    OBVIOUS
  <1>2. CASE pipe'.chain = pipe.chain /\ pipe'.latest = pipe.latest
    <2>1. ChainsInOrder'
      BY <1>1, <1>2, VideoBounds
         DEF PipelineInv, ChainsInOrder, Busy, Coming, OfChain
    <2>2. InLine'
      BY <1>1, <1>2 DEF PipelineInv, InLine, Doomed, Coming, OfChain, Ready
    <2>3. MadeWhole' /\ V!ShownWhole' /\ ResetVoids'
      BY <1>2 DEF PipelineInv, MadeWhole, V!ShownWhole, ResetVoids, OfChain
    <2> QED
      BY <2>1, <2>2, <2>3, Typing, PartsKept
  <1>3. CASE pipe'.chain = pipe.chain + 1 /\ pipe'.latest = V!NoPicture
    <2>1. /\ pipe.decoderChain <= pipe.chain
          /\ Busy => worker.unit.chain <= pipe.chain /\ worker.unit \in V!Unit
      BY DEF PipelineInv, ChainsInOrder
    <2>2. Busy => ~OfChain'
      BY <1>3, <2>1, Typing DEF V!Unit, OfChain
    <2>3. ChainsInOrder'
      BY <1>1, <1>3, <2>1, <2>2, Typing, VideoBounds
         DEF PipelineInv, ChainsInOrder, Busy, Coming, V!Unit
    <2>4. InLine'
      BY <1>1, <1>3, <2>2 DEF InLine, Coming, Busy, Ready
    <2>5. pipe'.decoderChain # pipe'.chain
      BY <1>3, <2>1, Typing
    <2>6. MadeWhole' /\ V!ShownWhole' /\ ResetVoids'
      BY <1>3, <2>2, <2>5 DEF PipelineInv, MadeWhole, V!ShownWhole, ResetVoids, Busy
    <2> QED
      BY <2>3, <2>4, <2>6, Typing, PartsKept
  <1> QED
    BY <1>2, <1>3

\* A unit of a chain joins the end of the queue.
LEMMA NextKeeps ==
  ASSUME PipelineInv, UNCHANGED <<dec, worker, life, obs, inputAge>>,
         units + 1 \in 0 .. MaxUnits, units' = units + 1,
         PipeTyped(pipe'), NEW v \in V!Unit, SameChain(pipe, pipe'),
         pipe'.closed = pipe.closed, pipe'.ended = pipe.ended,
         V!Live, pipe.synced, ~pipe.gap, ~pipe.resetting,
         pipe'.pending = Append(pipe.pending, v), Len(pipe.pending) < MaxPending,
         v.n = units + 1, v.chain = pipe.chain, v.gen = pipe.gen
  PROVE  PipelineInv'
  <1> DEFINE s == pipe.pending
             t == pipe'.pending
  <1>1. /\ s \in Seq(V!Unit) /\ t \in Seq(V!Unit) /\ Len(s) \in Nat
        /\ Len(t) = Len(s) + 1 /\ t # <<>> /\ t[Len(s) + 1] = v
        /\ \A i \in 1 .. Len(s) : t[i] = s[i]
        /\ DOMAIN s = 1 .. Len(s) /\ DOMAIN t = 1 .. Len(s) + 1
        /\ s = <<>> <=> Len(s) = 0
    BY Typing, AppendProperties
  <1>2. /\ pipe'.gen = pipe.gen /\ pipe'.chain = pipe.chain /\ pipe'.synced
        /\ ~pipe'.gap /\ pipe'.latest = pipe.latest
        /\ pipe'.decoderChain = pipe.decoderChain /\ ~pipe'.resetting
    BY DEF SameChain
  <1>3. \A i \in DOMAIN t : t[i].chain = pipe.chain /\ t[i].gen = pipe.gen
    <2>1. \A i \in 1 .. Len(s) : s[i].chain = pipe.chain /\ s[i].gen = pipe.gen
      BY <1>1 DEF PipelineInv, ChainsInOrder
    <2>2. \A i \in DOMAIN t : i \in 1 .. Len(s) \/ i = Len(s) + 1
      BY <1>1
    <2> HIDE DEF s, t
    <2> QED
      BY <1>1, <2>1, <2>2
  <1>4. ChainsInOrder'
    <2>1. Len(t) <= MaxPending
      BY <1>1, VideoBounds
    <2> QED
      BY <1>2, <1>3, <2>1 DEF PipelineInv, ChainsInOrder, Busy, Coming, OfChain
  <1>5. ResetVoids' /\ V!ShownWhole' /\ MadeWhole'
    BY <1>2 DEF PipelineInv, ResetVoids, V!ShownWhole, MadeWhole, OfChain
  <1>6. InLine'
    <2>1. (OfChain' <=> OfChain) /\ (Coming' <=> Coming) /\ (Doomed' <=> Doomed)
      BY <1>2 DEF OfChain, Coming, Doomed
    <2>2. \A x : Ready(x)' <=> Ready(x)
      BY <1>2 DEF Ready
    <2>3. ASSUME ~pipe.closed, ~Doomed
          PROVE  /\ Coming /\ OfChain => Ready(worker.unit)
                 /\ s # <<>> => /\ \/ s[1].key
                                   \/ IF Coming /\ OfChain
                                      THEN s[1].n = worker.unit.n + 1
                                      ELSE Ready(s[1])
                                /\ s[Len(s)].n = units
                 /\ \A i \in 1 .. Len(s) - 1 : s[i + 1].n = s[i].n + 1
                 /\ s = <<>> =>
                      IF Coming /\ OfChain THEN worker.unit.n = units
                      ELSE pipe.decoderChain = pipe.chain /\ dec.whole
                           /\ dec.last = units
      BY <2>3 DEF PipelineInv, InLine
    <2>4. t[Len(t)] = v /\ t[1] = IF s = <<>> THEN v ELSE s[1]
      BY <1>1
    <2>5. ASSUME ~pipe.closed, ~Doomed, NEW i \in 1 .. Len(t) - 1
          PROVE  t[i + 1].n = t[i].n + 1
      <3>1. CASE i = Len(s)
        <4>1. s # <<>> /\ i \in 1 .. Len(s)
          BY <1>1, <3>1
        <4>2. t[i + 1] = v /\ t[i] = s[Len(s)]
          BY <1>1, <3>1, <4>1
        <4> HIDE DEF s, t
        <4> QED
          BY <2>3, <2>5, <4>1, <4>2
      <3>2. CASE i # Len(s)
        <4>1. i \in 1 .. Len(s) - 1 /\ i \in 1 .. Len(s) /\ i + 1 \in 1 .. Len(s)
          BY <1>1, <3>2
        <4>2. t[i + 1] = s[i + 1] /\ t[i] = s[i]
          BY <1>1, <4>1
        <4> HIDE DEF s, t
        <4> QED
          BY <2>3, <2>5, <4>1, <4>2
      <3> QED
        BY <3>1, <3>2
    <2>6. ASSUME ~pipe.closed, ~Doomed
          PROVE  \/ t[1].key
                 \/ IF Coming /\ OfChain THEN t[1].n = worker.unit.n + 1
                                         ELSE Ready(t[1])
      <3> HIDE DEF s, t
      <3> QED
        BY <2>3, <2>4, <2>6 DEF Ready
    <2>7. PICK x : x = t[1]
      OBVIOUS
    <2>8. PICK u : u = worker.unit
      OBVIOUS
    <2>9. /\ (~pipe.closed /\ ~Doomed =>
                /\ Coming /\ OfChain => Ready(u)
                /\ \/ x.key
                   \/ IF Coming /\ OfChain THEN x.n = u.n + 1 ELSE Ready(x))
          /\ worker'.unit = u
      BY <2>3, <2>6, <2>7, <2>8
    <2>10. t[Len(t)].n = units'
      BY <2>4
    <2> QED
      BY <1>1, <1>2, <2>1, <2>2, <2>5, <2>7, <2>9, <2>10 DEF InLine
  <1> QED
    BY <1>4, <1>5, <1>6, Typing, PartsKept

LEMMA ArriveKeeps ==
  ASSUME PipelineInv, NEW key \in BOOLEAN, V!Arrive(key)
  PROVE  PipelineInv'
  <1>0. /\ UNCHANGED <<dec, worker, life, obs, inputAge>>
        /\ units < MaxUnits /\ units' = units + 1
        /\ V!Live /\ ~pipe.closed /\ ~pipe.ended /\ ~pipe.resetting
        /\ units' \in 0 .. MaxUnits /\ units + 1 \in 1 .. MaxUnits
        /\ pipe.gen \in 1 .. MaxGen /\ units \in Nat
    BY Typing, VideoBounds DEF V!Arrive, V!Live, PipeTyped
  <1>1. PICK u : u = [n |-> units', key |-> key, chain |-> 0, gen |-> pipe.gen,
                      age |-> 0]
    OBVIOUS
  <1>2. u \in V!Unit /\ u.n = units' /\ u.key = key /\ u.gen = pipe.gen
    BY <1>0, <1>1, VideoBounds DEF V!Unit, V!Ages
  <1>3. PICK b : b = IF pipe.gap THEN V!BreakChain(pipe) ELSE pipe
    OBVIOUS
  <1>4. PICK q : q = [b EXCEPT !.gap = FALSE]
    OBVIOUS
  <1>5. PICK r : r = [q EXCEPT !.pending = <<>>, !.synced = TRUE, !.asked = FALSE]
    OBVIOUS
  <1>6. pipe' = IF key THEN V!Queued(r, u)
                ELSE IF q.synced THEN V!Queued(q, u) ELSE q
    BY <1>1, <1>3, <1>4, <1>5 DEF V!Arrive
  <1>7. /\ PipeTyped(b) /\ b.gen = pipe.gen /\ b.decoderChain = pipe.decoderChain
        /\ b.resetting = pipe.resetting /\ b.closed = pipe.closed
        /\ b.ended = pipe.ended
        /\ \/ /\ ~pipe.gap /\ b = pipe
           \/ /\ pipe.gap /\ b.chain = pipe.chain + 1 /\ b.pending = <<>>
              /\ ~b.synced /\ b.latest = V!NoPicture
    BY <1>3, Typing, Breaks
  <1>8. /\ PipeTyped(q) /\ q.gen = pipe.gen /\ q.decoderChain = pipe.decoderChain
        /\ q.resetting = pipe.resetting /\ q.closed = pipe.closed
        /\ q.ended = pipe.ended /\ ~q.gap
        /\ q.chain = b.chain /\ q.pending = b.pending /\ q.synced = b.synced
        /\ q.latest = b.latest
    BY <1>4, <1>7 DEF PipeTyped
  <1>9. CASE key
    <2>1. /\ PipeTyped(r) /\ r.gen = pipe.gen /\ r.decoderChain = pipe.decoderChain
          /\ r.resetting = pipe.resetting /\ r.closed = pipe.closed
          /\ r.ended = pipe.ended /\ r.pending = <<>>
          /\ r.chain = b.chain /\ r.latest = b.latest
      BY <1>5, <1>8, Typing DEF PipeTyped
    <2>2. pipe' = V!Queued(r, u) /\ Len(r.pending) < MaxPending
      BY <1>6, <1>9, <2>1, VideoBounds
    <2>3. PICK v : v = [u EXCEPT !.chain = r.chain]
      OBVIOUS
    <2>4. v \in V!Unit /\ v.key /\ v.n = units' /\ v.gen = pipe.gen /\ v.chain = r.chain
      BY <1>2, <1>9, <2>1, <2>3 DEF V!Unit, PipeTyped
    <2>5. /\ PipeTyped(pipe') /\ pipe'.pending = <<v>> /\ pipe'.chain = r.chain
          /\ pipe'.latest = r.latest /\ pipe'.gen = r.gen
          /\ pipe'.decoderChain = r.decoderChain
          /\ pipe'.resetting = r.resetting /\ pipe'.closed = r.closed
          /\ pipe'.ended = r.ended
      <3>1. Append(<<>>, v) = <<v>>
        OBVIOUS
      <3> QED
        BY <1>2, <2>1, <2>2, <2>3, <3>1, Queues
    <2>6. \/ pipe'.chain = pipe.chain + 1 /\ pipe'.latest = V!NoPicture
          \/ pipe'.chain = pipe.chain /\ pipe'.latest = pipe.latest
      BY <1>7, <2>1, <2>5
    <2> QED
      BY <1>0, <2>1, <2>4, <2>5, <2>6, KeyKeeps
  <1>10. CASE ~key /\ ~q.synced
    <2>1. pipe' = q
      BY <1>6, <1>10
    <2>2. CASE pipe.gap
      <3>1. /\ ChainsInOrder' /\ InLine' /\ MadeWhole' /\ V!ShownWhole'
        BY <1>0, <1>7, <1>8, <1>10, <2>1, <2>2, BrokenKeeps
      <3>2. ResetVoids'
        BY <1>0, <1>8, <2>1 DEF PipelineInv, ResetVoids
      <3> QED
        BY <1>0, <1>8, <2>1, <3>1, <3>2, Typing, PartsKept
    <2>3. CASE ~pipe.gap
      <3>1. /\ SameQueue(pipe, pipe') /\ ~pipe'.synced
            /\ pipe'.gen = pipe.gen /\ pipe'.chain = pipe.chain
            /\ pipe'.decoderChain = pipe.decoderChain
            /\ pipe'.synced = pipe.synced /\ pipe'.latest = pipe.latest
            /\ pipe'.resetting = pipe.resetting
        BY <1>7, <1>8, <1>10, <2>1, <2>3 DEF SameQueue
      <3>2. ChainsInOrder' /\ ResetVoids' /\ V!ShownWhole'
        BY <1>0, <3>1
           DEF PipelineInv, ChainsInOrder, ResetVoids, V!ShownWhole, Busy, Coming,
               OfChain, SameQueue
      <3>3. InLine' /\ MadeWhole'
        BY <1>0, <3>1
           DEF PipelineInv, InLine, MadeWhole, Doomed, Coming, OfChain, Ready,
               V!Live, SameQueue
      <3> QED
        BY <1>0, <1>8, <2>1, <3>2, <3>3, Typing, PartsKept
    <2> QED
      BY <2>2, <2>3
  <1>11. CASE ~key /\ q.synced
    <2>1. pipe' = V!Queued(q, u) /\ ~pipe.gap /\ b = pipe /\ pipe.synced
      BY <1>6, <1>7, <1>8, <1>11
    <2>2. CASE Len(q.pending) >= MaxPending
      <3>1. pipe' = V!BreakChain(q)
        BY <2>1, <2>2 DEF V!Queued
      <3>2. /\ PipeTyped(pipe')
            /\ pipe'.chain = pipe.chain + 1 /\ ~pipe'.synced /\ pipe'.pending = <<>>
            /\ pipe'.latest = V!NoPicture /\ pipe'.resetting = pipe.resetting
            /\ pipe'.gen = pipe.gen /\ pipe'.decoderChain = pipe.decoderChain
            /\ pipe'.closed = pipe.closed
        BY <1>8, <2>1, <3>1, Breaks
      <3>3. ChainsInOrder' /\ InLine' /\ MadeWhole' /\ V!ShownWhole'
        BY <1>0, <3>2, BrokenKeeps
      <3>4. ResetVoids'
        BY <1>0, <3>2 DEF PipelineInv, ResetVoids
      <3> QED
        BY <1>0, <3>2, <3>3, <3>4, Typing, PartsKept
    <2>3. CASE ~(Len(q.pending) >= MaxPending)
      <3>1. Len(q.pending) \in Nat /\ Len(q.pending) < MaxPending
        BY <1>8, <2>3, VideoBounds DEF PipeTyped
      <3>2. PICK v : v = [u EXCEPT !.chain = q.chain]
        OBVIOUS
      <3>3. /\ v \in V!Unit /\ v.n = units' /\ v.gen = pipe.gen
            /\ v.chain = pipe.chain
        BY <1>2, <1>8, <2>1, <3>2 DEF V!Unit, PipeTyped
      <3>4. /\ PipeTyped(pipe') /\ SameChain(q, pipe')
            /\ pipe'.closed = q.closed /\ pipe'.ended = q.ended
            /\ pipe'.pending = Append(q.pending, v)
        BY <1>2, <1>8, <2>1, <3>1, <3>2, Queues DEF SameChain
      <3>5. /\ SameChain(pipe, pipe') /\ pipe'.closed = pipe.closed
            /\ pipe'.ended = pipe.ended
            /\ pipe'.pending = Append(pipe.pending, v)
            /\ Len(pipe.pending) < MaxPending
        <4>1. q.gap = pipe.gap
          BY <1>8, <2>1, Typing, Zenon DEF PipeTyped
        <4>2. /\ q.gen = pipe.gen /\ q.chain = pipe.chain /\ q.synced = pipe.synced
              /\ q.latest = pipe.latest /\ q.decoderChain = pipe.decoderChain
              /\ q.resetting = pipe.resetting /\ q.pending = pipe.pending
              /\ q.closed = pipe.closed /\ q.ended = pipe.ended
          BY <1>8, <2>1
        <4> QED
          BY <3>1, <3>4, <4>1, <4>2 DEF SameChain
      <3>6. units + 1 \in 0 .. MaxUnits
        BY <1>0
      <3> QED
        BY <1>0, <2>1, <3>3, <3>4, <3>5, <3>6, NextKeeps
    <2> QED
      BY <2>2, <2>3
  <1> QED
    BY <1>9, <1>10, <1>11

\* Time makes everything older, and nothing else.
LEMMA TickKeeps ==
  ASSUME PipelineInv, V!Tick
  PROVE  PipelineInv'
  <1> DEFINE s == pipe.pending
             t == pipe'.pending
  <1>1. PICK r : r = [i \in DOMAIN s |-> V!Aged(s[i])]
    OBVIOUS
  <1>2. /\ r \in Seq(V!Unit) /\ Len(r) = Len(s) /\ DOMAIN r = DOMAIN s
        /\ DOMAIN s = 1 .. Len(s) /\ Len(s) \in Nat
        /\ s = <<>> <=> r = <<>>
        /\ \A i \in DOMAIN s :
             /\ s[i] \in V!Unit /\ r[i] = V!Aged(s[i]) /\ r[i] \in V!Unit
    <2>1. /\ s \in Seq(V!Unit) /\ DOMAIN s = 1 .. Len(s) /\ Len(s) \in Nat
          /\ \A i \in 1 .. Len(s) : s[i] \in V!Unit
      BY Typing
    <2>2. \A x \in V!Unit : V!Aged(x) \in V!Unit
      BY AgedUnit
    <2>3. /\ \A i \in 1 .. Len(s) : r[i] = V!Aged(s[i]) /\ r[i] \in V!Unit
          /\ r \in [1 .. Len(s) -> V!Unit]
      BY <1>1, <2>1, <2>2
    <2>4. r \in Seq(V!Unit) /\ Len(r) = Len(s) /\ DOMAIN r = DOMAIN s
      BY <2>1, <2>3
    <2>5. s = <<>> <=> Len(s) = 0
      BY <2>1, EmptySeq
    <2>6. r = <<>> <=> Len(r) = 0
      BY <2>4, EmptySeq
    <2> QED
      BY <2>1, <2>3, <2>4, <2>5, <2>6
  <1>3. \A i \in DOMAIN s : /\ r[i].key = s[i].key /\ r[i].chain = s[i].chain
                            /\ r[i].gen = s[i].gen /\ r[i].n = s[i].n
    BY <1>2, AgedUnit
  <1>4. PICK l : l = V!Aged(pipe.latest)
    OBVIOUS
  <1>5. /\ pipe.latest \in Picture /\ l \in Picture
        /\ l.whole = pipe.latest.whole /\ l.chain = pipe.latest.chain
        /\ l.gen = pipe.latest.gen
        /\ l # V!NoPicture <=> pipe.latest # V!NoPicture
    <2>1. pipe.latest \in Picture
      BY Typing DEF PipeTyped
    <2> QED
      BY <1>4, <2>1, AgedPicture
  <1>6. PICK since \in 0 .. PLIInterval :
          since = IF pipe.sincePLI = PLIInterval THEN pipe.sincePLI
                  ELSE pipe.sincePLI + 1
    BY Typing, VideoBounds DEF PipeTyped
  <1>7. pipe' = [pipe EXCEPT !.latest = l, !.sincePLI = since, !.pending = r]
    BY <1>1, <1>4, <1>6 DEF V!Tick
  <1>8. /\ PipeTyped(pipe') /\ pipe'.latest = l /\ pipe'.pending = r
        /\ pipe'.gen = pipe.gen /\ pipe'.chain = pipe.chain
        /\ pipe'.decoderChain = pipe.decoderChain
        /\ pipe'.synced = pipe.synced /\ pipe'.gap = pipe.gap
        /\ pipe'.resetting = pipe.resetting
        /\ pipe'.closed = pipe.closed /\ pipe'.ended = pipe.ended
    BY <1>2, <1>5, <1>7, Typing DEF PipeTyped
  <1>9. /\ worker' \in WorkerSet /\ worker'.pc = worker.pc
        /\ worker'.failed = worker.failed
        /\ worker'.unit.chain = worker.unit.chain
        /\ worker'.unit.gen = worker.unit.gen /\ worker'.unit.n = worker.unit.n
        /\ worker'.unit.key = worker.unit.key
        /\ worker.unit \in V!Unit => worker'.unit \in V!Unit
        /\ worker'.out # V!NoPicture <=> worker.out # V!NoPicture
        /\ worker'.out.whole = worker.out.whole
        /\ worker'.out.chain = worker.out.chain
    <2>1. PICK u : u = V!Aged(worker.unit)
      OBVIOUS
    <2>2. PICK o : o = V!Aged(worker.out)
      OBVIOUS
    <2>3. worker.unit \in V!Unit \cup {V!NoUnit} /\ worker.out \in Picture
      BY Typing DEF WorkerSet
    <2>4. /\ u \in V!Unit \cup {V!NoUnit} /\ o \in Picture
          /\ u.chain = worker.unit.chain /\ u.gen = worker.unit.gen
          /\ u.n = worker.unit.n /\ u.key = worker.unit.key
          /\ worker.unit \in V!Unit => u \in V!Unit
          /\ o # V!NoPicture <=> worker.out # V!NoPicture
          /\ o.whole = worker.out.whole /\ o.chain = worker.out.chain
      BY <2>1, <2>2, <2>3, AgedUnit, AgedPicture
    <2>5. worker' = [worker EXCEPT !.unit = u, !.out = o]
      BY <2>1, <2>2 DEF V!Tick
    <2>6. /\ worker' \in WorkerSet /\ worker'.unit = u /\ worker'.out = o
          /\ worker'.pc = worker.pc /\ worker'.failed = worker.failed
      BY <2>4, <2>5, Typing DEF WorkerSet
    <2> QED
      BY <2>4, <2>6
  <1>10. /\ dec' \in DecoderSet /\ dec'.whole = dec.whole /\ dec'.last = dec.last
         /\ (dec'.held # V!NoPicture <=> dec.held # V!NoPicture)
         /\ dec'.held.whole = dec.held.whole /\ dec'.held.chain = dec.held.chain
    <2>1. PICK h : h = V!Aged(dec.held)
      OBVIOUS
    <2>2. dec.held \in Picture
      BY Typing DEF DecoderSet
    <2>3. /\ h \in Picture /\ (h # V!NoPicture <=> dec.held # V!NoPicture)
          /\ h.whole = dec.held.whole /\ h.chain = dec.held.chain
      BY <2>1, <2>2, AgedPicture
    <2>4. dec' = [dec EXCEPT !.held = h]
      BY <2>1 DEF V!Tick
    <2>5. /\ dec' \in DecoderSet /\ dec'.held = h
          /\ dec'.whole = dec.whole /\ dec'.last = dec.last
      BY <2>3, <2>4, Typing DEF DecoderSet
    <2> QED
      BY <2>3, <2>5
  <1>11. (OfChain' <=> OfChain) /\ (Coming' <=> Coming) /\ (Doomed' <=> Doomed)
         /\ (Busy' <=> Busy)
    BY <1>8, <1>9 DEF OfChain, Coming, Doomed, Busy
  <1>12. UNCHANGED <<units, life>>
    BY DEF V!Tick
  <1> HIDE DEF s, t
  <1>13. ChainsInOrder'
    BY <1>2, <1>3, <1>8, <1>9, <1>11 DEF PipelineInv, ChainsInOrder, s
  <1>14. ResetVoids'
    BY <1>2, <1>5, <1>8, <1>9, <1>11, <1>12 DEF PipelineInv, ResetVoids, s
  <1>15. InLine'
    <2>1. \A x, y : x.key = y.key /\ x.n = y.n => (Ready(x)' <=> Ready(y))
      BY <1>8, <1>10 DEF Ready
    <2>2. ASSUME ~pipe.closed, ~Doomed
          PROVE  /\ Coming /\ OfChain => Ready(worker.unit)
                 /\ s # <<>> =>
                      \/ s[1].key
                      \/ IF Coming /\ OfChain THEN s[1].n = worker.unit.n + 1
                                              ELSE Ready(s[1])
                 /\ \A i \in 1 .. Len(s) - 1 : s[i + 1].n = s[i].n + 1
                 /\ pipe.synced /\ ~pipe.gap /\ V!Live =>
                      IF s # <<>> THEN s[Len(s)].n = units
                      ELSE IF Coming /\ OfChain THEN worker.unit.n = units
                      ELSE pipe.decoderChain = pipe.chain /\ dec.whole
                           /\ dec.last = units
      BY <2>2 DEF PipelineInv, InLine, s
    <2>3. s # <<>> => 1 \in DOMAIN s /\ Len(s) \in DOMAIN s
      BY <1>2
    <2>4. s # <<>> => /\ r[1].key = s[1].key /\ r[1].n = s[1].n
                      /\ r[Len(r)].n = s[Len(s)].n
      BY <1>2, <1>3, <2>3
    <2>5. ASSUME ~pipe.closed, ~Doomed, NEW i \in 1 .. Len(r) - 1
          PROVE  r[i + 1].n = r[i].n + 1
      <3>1. i \in 1 .. Len(s) - 1 /\ i \in DOMAIN s /\ i + 1 \in DOMAIN s
        BY <1>2, <2>5
      <3> QED
        BY <1>3, <2>2, <2>5, <3>1
    <2>6. PICK x, y : x = s[1] /\ y = r[1]
      OBVIOUS
    <2>7. PICK u, v : u = worker.unit /\ v = worker'.unit
      OBVIOUS
    <2>8. /\ Ready(v)' <=> Ready(u)
          /\ s # <<>> => (Ready(y)' <=> Ready(x))
      BY <1>9, <2>1, <2>4, <2>6, <2>7
    <2>9. ~pipe.closed /\ ~Doomed =>
            /\ Coming /\ OfChain => Ready(u)
            /\ s # <<>> => \/ x.key
                           \/ IF Coming /\ OfChain THEN x.n = u.n + 1 ELSE Ready(x)
      BY <2>2, <2>6, <2>7
    <2>10. ~pipe.closed /\ ~Doomed =>
            /\ Coming /\ OfChain => Ready(v)'
            /\ r # <<>> => \/ y.key
                           \/ IF Coming /\ OfChain THEN y.n = v.n + 1 ELSE Ready(y)'
      BY <1>2, <1>9, <2>4, <2>6, <2>7, <2>8, <2>9
    <2>11. V!Live' <=> V!Live
      BY <1>8 DEF V!Live
    <2>12. ~pipe.closed /\ ~Doomed /\ pipe.synced /\ ~pipe.gap /\ V!Live =>
             IF r # <<>> THEN r[Len(r)].n = units
             ELSE IF Coming /\ OfChain THEN v.n = units
             ELSE pipe.decoderChain = pipe.chain /\ dec'.whole /\ dec'.last = units
      BY <1>2, <1>9, <1>10, <2>2, <2>4, <2>7
    <2> QED
      BY <1>8, <1>11, <1>12, <2>5, <2>6, <2>7, <2>10, <2>11, <2>12 DEF InLine
  <1>16. MadeWhole' /\ V!ShownWhole'
    BY <1>5, <1>8, <1>9, <1>10, <1>11 DEF PipelineInv, MadeWhole, V!ShownWhole
  <1>17. /\ inputAge' \in V!Ages
         /\ obs' \in [Observers -> [pc: {"idle", "waiting", "got"}, gen: Nat,
                                    bound: V!Ages, picture: Picture]]
         /\ Waits' /\ V!ObservedAfterInput'
    <2> DEFINE Observer == [pc: {"idle", "waiting", "got"}, gen: Nat,
                            bound: V!Ages, picture: Picture]
    <2>1. inputAge \in V!Ages /\ inputAge' = V!Older(inputAge)
      BY DEF V!Tick, PipelineInv, PipelineTyped
    <2>2. \A a \in V!Ages : V!Older(a) \in V!Ages
      BY VideoBounds DEF V!Older, V!Ages
    <2>3. /\ obs' = [o \in Observers |->
                      IF obs[o].pc = "idle" THEN V!NoObserver
                      ELSE [obs[o] EXCEPT !.bound = V!Older(@), !.picture = V!Aged(@)]]
          /\ \A o \in Observers : obs[o] \in Observer
      BY DEF V!Tick, PipelineInv, PipelineTyped
    <2>4. ASSUME NEW o \in Observers
          PROVE  /\ obs'[o] \in Observer
                 /\ obs'[o].pc # "idle" => obs'[o].bound = inputAge'
                 /\ obs'[o].pc = "got" =>
                      /\ obs'[o].picture.whole /\ obs'[o].picture.gen = obs'[o].gen
                      /\ obs'[o].picture.age <= inputAge'
      <3>1. CASE obs[o].pc = "idle"
        <4>1. obs'[o] = V!NoObserver
          BY <2>3, <3>1
        <4>2. V!NoObserver.pc = "idle"
          BY DEF V!NoObserver
        <4> QED
          BY <4>1, <4>2, NothingTyped
      <3>2. CASE obs[o].pc # "idle"
        <4>1. PICK c, a : c = V!Aged(obs[o].picture) /\ a = V!Older(obs[o].bound)
          OBVIOUS
        <4>2. PICK x : x = obs[o]
          OBVIOUS
        <4>3. x \in Observer /\ x.picture \in Picture /\ x.bound \in V!Ages
          BY <2>3, <4>2
        <4>4. /\ c \in Picture /\ c.whole = x.picture.whole
              /\ c.gen = x.picture.gen /\ a \in V!Ages
              /\ x.picture.age <= inputAge => c.age <= inputAge'
          BY <2>1, <2>2, <4>1, <4>2, <4>3, AgedPicture
        <4>5. obs'[o] = [x EXCEPT !.bound = a, !.picture = c]
          BY <2>3, <3>2, <4>1, <4>2
        <4>6. /\ obs'[o] \in Observer /\ obs'[o].pc = x.pc /\ obs'[o].gen = x.gen
              /\ obs'[o].bound = a /\ obs'[o].picture = c
          BY <4>3, <4>4, <4>5
        <4>7. x.bound = inputAge
          BY <3>2, <4>2 DEF PipelineInv, Waits
        <4>8. x.pc = "got" => /\ x.picture.whole /\ x.picture.gen = x.gen
                              /\ x.picture.age <= inputAge
          BY <4>2 DEF PipelineInv, V!ObservedAfterInput
        <4> QED
          BY <2>1, <4>1, <4>2, <4>4, <4>6, <4>7, <4>8
      <3> QED
        BY <3>1, <3>2
    <2>5. obs' \in [Observers -> Observer]
      BY <2>3, <2>4
    <2> QED
      BY <2>1, <2>2, <2>4, <2>5 DEF Waits, V!ObservedAfterInput
  <1>18. PipelineTyped'
    BY <1>8, <1>9, <1>10, <1>12, <1>17
       DEF PipelineInv, PipelineTyped, WorkerSet, DecoderSet
  <1> QED
    BY <1>13, <1>14, <1>15, <1>16, <1>17, <1>18 DEF PipelineInv

LEMMA PipelineInvHolds == V!Spec => []PipelineInv
  <1>1. V!Init => PipelineInv
    <2> SUFFICES ASSUME V!Init PROVE PipelineInv
      OBVIOUS
    <2>1. /\ units = 0 /\ units \in 0 .. MaxUnits
          /\ inputAge = Freshness + 1 /\ inputAge \in V!Ages
          /\ dec = V!NewDecoder /\ dec.held = V!NoPicture
          /\ life.pc = "free" /\ ~Busy /\ ~Coming /\ ~Doomed /\ worker.pc = "top"
      BY VideoBounds, NothingTyped
         DEF V!Init, V!Ages, V!NewDecoder, Busy, Coming, Doomed
    <2>2. /\ PipeTyped(pipe) /\ pipe.pending = <<>> /\ pipe.latest = V!NoPicture
          /\ ~pipe.resetting /\ ~pipe.closed /\ ~pipe.synced
          /\ pipe.chain = 1 /\ pipe.decoderChain = 1
      BY VideoBounds, NothingTyped DEF V!Init, PipeTyped
    <2>3. worker \in WorkerSet /\ obs = [o \in Observers |-> V!NoObserver]
      BY NothingTyped DEF V!Init, WorkerSet
    <2>4. PipelineTyped
      BY <2>1, <2>2, <2>3, NothingTyped DEF PipelineTyped, WorkerSet
    <2>5. Len(pipe.pending) = 0 /\ DOMAIN pipe.pending = {}
      BY <2>2
    <2>6. ChainsInOrder /\ ResetVoids /\ InLine /\ MadeWhole /\ V!ShownWhole
      BY <2>1, <2>2, <2>5, VideoBounds
         DEF ChainsInOrder, ResetVoids, InLine, MadeWhole, V!ShownWhole
    <2>7. \A o \in Observers : obs[o].pc = "idle"
      BY <2>3 DEF V!NoObserver
    <2>8. Waits /\ V!ObservedAfterInput
      BY <2>7 DEF Waits, V!ObservedAfterInput
    <2> QED
      BY <2>4, <2>6, <2>8 DEF PipelineInv
  <1>2. PipelineInv /\ [V!Next]_(V!vars) => PipelineInv'
    <2> SUFFICES ASSUME PipelineInv, [V!Next]_(V!vars) PROVE PipelineInv'
      OBVIOUS
    <2>1. CASE UNCHANGED V!vars
      BY <2>1
         DEF V!vars, PipelineInv, PipelineTyped, ChainsInOrder, ResetVoids, InLine,
             MadeWhole, V!ShownWhole, Waits, V!ObservedAfterInput, Busy, Coming,
             OfChain, Ready, Doomed, V!Live
    <2>2. ASSUME NEW key \in BOOLEAN, V!Arrive(key)
          PROVE  PipelineInv'
      BY <2>2, ArriveKeeps
    <2>3. CASE V!Miss
      BY <2>3, MissKeeps
    <2>4. CASE V!EndStream \/ V!WorkerEmpty \/ V!WorkerWake \/ V!LoseRequest
      BY <2>4, IdleKeeps
    <2>5. CASE V!WorkerTop
      BY <2>5, TopKeeps
    <2>6. CASE V!WorkerStart
      BY <2>6, StartKeeps
    <2>7. CASE V!WorkerDecode
      BY <2>7, DecodeKeeps
    <2>8. CASE V!WorkerPublish
      BY <2>8, PublishKeeps
    <2>9. CASE V!WorkerJudge
      BY <2>9, JudgeKeeps
    <2>10. ASSUME NEW g \in 1 .. MaxGen, V!StartReset(g)
           PROVE  PipelineInv'
      BY <2>10, ResetKeeps
    <2>11. CASE V!FinishReset
      BY <2>11, ResetKeeps
    <2>12. CASE V!StartClose \/ V!FinishClose
      BY <2>12, CloseKeeps
    <2>13. CASE \/ V!Input
                \/ \E o \in Observers : V!Observe(o) \/ V!Await(o) \/ V!Leave(o)
      BY <2>13, ObserversKeep
    <2>14. CASE V!Tick
      BY <2>14, TickKeeps
    <2> QED
      BY <2>1, <2>2, <2>3, <2>4, <2>5, <2>6, <2>7, <2>8, <2>9, <2>10, <2>11, <2>12,
         <2>13, <2>14 DEF V!Next, V!WorkerStep
  <1> QED
    BY <1>1, <1>2, PTL DEF V!Spec

LEMMA PipelineSound ==
  PipelineInv => V!TypeOK /\ V!ShownWhole /\ V!ObservedAfterInput
  <1> SUFFICES ASSUME PipelineInv
               PROVE  V!TypeOK
    BY DEF PipelineInv
  <1>1. /\ pipe.pending \in Seq(V!Unit) /\ pipe.sincePLI \in 0 .. PLIInterval
        /\ worker.pc \in {"top", "empty", "wait", "taken", "decode", "fed", "judge",
                          "done"}
    BY Typing DEF PipeTyped, WorkerSet
  <1> QED
    BY <1>1 DEF PipelineInv, PipelineTyped, ChainsInOrder, V!TypeOK

\* What is shown was decoded from an IDR and every unit after it, in the present
\* chain (pipeline.go, breakChain and decodeUnit), and what a call returns was
\* received after the last input (automation/video.go, AwaitObservation).
THEOREM PicturesWhole == V!Spec => [](V!ShownWhole /\ V!ObservedAfterInput)
  <1>1. PipelineInv => V!ShownWhole /\ V!ObservedAfterInput
    BY PipelineSound
  <1> QED
    BY <1>1, PipelineInvHolds, PTL

\* In the composition the pipeline behaves as it does alone.
LEMMA HasPipeline == LinkSpec => V!Spec
  <1>1. LinkInit => V!Init
    BY DEF LinkInit
  <1>2. [LinkNext]_linkVars => [V!Next]_(V!vars)
    BY DEF LinkNext, linkVars, pipelineVars, V!vars
  <1> QED
    BY <1>1, <1>2, PTL DEF LinkSpec, V!Spec

\* What an observer is shown was decoded whole, after the input it asked to see, in
\* the composition (pipeline.go).
THEOREM ObserversShownWhole == LinkSpec => []ShownWhole
  <1>1. PipelineInv => ShownWhole
    BY PipelineSound DEF ShownWhole
  <1> QED
    BY <1>1, HasPipeline, PipelineInvHolds, PTL

(***************************************************************************)
(* Signaling                                                               *)
(***************************************************************************)

\* What of X is in a sequence is there once.
OnceIn(s, X) ==
  \A i, j \in DOMAIN s : s[i] = s[j] /\ s[i] \in X => i = j

\* Before the offer is out candidates are kept, and after it none is; what is
\* being flushed was kept.
OfferLeads ==
  /\ ~offerSent =>
       /\ outbound = <<>> /\ flushing = <<>> /\ writing = "nothing"
       /\ \A c \in S!Locals : callback[c] # "enqueue" /\ c \notin S!Range(wire)
  /\ offerSent => preOffer = <<>>
  /\ offerSent \/ connecting = "flag" => "offer" \in S!Range(wire)
  /\ flushing # <<>> => connecting = "flush"
  /\ writing # "nothing" <=> writer \in {"lock", "write"}

\* A candidate is in one place, and in none before its callback is over.
OnePlace ==
  /\ OnceIn(preOffer, S!Locals) /\ OnceIn(flushing, S!Locals)
  /\ OnceIn(outbound, S!Locals) /\ OnceIn(wire, S!Locals)
  /\ S!Range(flushing) \cap S!Range(outbound) = {}
  /\ S!Range(wire) \cap (S!Range(flushing) \cup S!Range(outbound)) = {}
  /\ writing \notin S!Range(flushing) \cup S!Range(outbound) \cup S!Range(wire)
  /\ \A c \in S!Locals : callback[c] # "over" =>
       c \notin S!Range(preOffer) \cup S!Range(flushing) \cup S!Range(outbound)
                  \cup {writing} \cup S!Range(wire)

LocalInv == OfferLeads /\ OnePlace /\ S!OfferFirst /\ S!CandidatesKept

\* The device sends each of its candidates once.
RemoteInv ==
  /\ told \in [answer: BOOLEAN, from: SUBSET Remotes, pings: Nat]
  /\ S!Range(inbox) \cap Remotes \subseteq told.from
  /\ OnceIn(inbox, Remotes)
  /\ S!RemoteKept

HandshakeInv ==
  /\ negotiator = "open" => tries = 0
  /\ negotiator = "try" => tries < MaxTries

SignalInv == S!TypeOK /\ LocalInv /\ RemoteInv /\ HandshakeInv

------------------------------------------------------------------------------

LEMMA SignalingBounds ==
  /\ S!Locals \cap Remotes = {}
  /\ S!Locals \cap {"offer", "pong", "nothing"} = {}
  /\ Remotes \cap {"answer", "ping"} = {}
  /\ OutboundBuffer \in Nat \ {0} /\ MaxTries \in Nat \ {0} /\ MaxPings \in Nat
  BY LinkAssumption DEF LinkAssumption, S!SignalingAssumption

LEMMA AppendedOnce ==
  ASSUME NEW T, NEW s \in Seq(T), NEW c \in T, NEW X
  PROVE  /\ Append(s, c) \in Seq(T)
         /\ Len(Append(s, c)) = Len(s) + 1
         /\ S!Range(Append(s, c)) = S!Range(s) \cup {c}
         /\ OnceIn(s, X) /\ (c \in X => c \notin S!Range(s)) =>
              OnceIn(Append(s, c), X)
  <1>1. PICK t : t = Append(s, c)
    OBVIOUS
  <1>2. /\ t \in Seq(T) /\ Len(t) = Len(s) + 1 /\ Len(s) \in Nat
        /\ DOMAIN t = 1 .. (Len(s) + 1) /\ DOMAIN s = 1 .. Len(s)
        /\ t[Len(s) + 1] = c /\ \A i \in 1 .. Len(s) : t[i] = s[i]
    BY <1>1
  <1>3. S!Range(t) = S!Range(s) \cup {c}
    BY <1>2 DEF S!Range
  <1>4. ASSUME OnceIn(s, X), c \in X => c \notin S!Range(s)
        PROVE  OnceIn(t, X)
    <2> SUFFICES ASSUME NEW i \in DOMAIN t, NEW j \in DOMAIN t,
                        t[i] = t[j], t[i] \in X
                 PROVE  i = j
      BY DEF OnceIn
    <2>1. \A k \in 1 .. Len(s) : s[k] \in S!Range(s)
      BY <1>2 DEF S!Range
    <2>2. CASE i \in 1 .. Len(s) /\ j \in 1 .. Len(s)
      BY <1>2, <1>4, <2>2 DEF OnceIn
    <2>3. CASE i = Len(s) + 1 /\ j \in 1 .. Len(s)
      BY <1>2, <1>4, <2>1, <2>3
    <2>4. CASE i \in 1 .. Len(s) /\ j = Len(s) + 1
      BY <1>2, <1>4, <2>1, <2>4
    <2> QED
      BY <1>2, <2>2, <2>3, <2>4
  <1> QED
    BY <1>1, <1>2, <1>3, <1>4

LEMMA TakenOnce ==
  ASSUME NEW T, NEW s \in Seq(T), s # <<>>, NEW X
  PROVE  /\ Tail(s) \in Seq(T) /\ Head(s) \in T
         /\ Len(Tail(s)) < Len(s)
         /\ S!Range(s) = {Head(s)} \cup S!Range(Tail(s))
         /\ OnceIn(s, X) =>
              /\ OnceIn(Tail(s), X)
              /\ Head(s) \in X => Head(s) \notin S!Range(Tail(s))
  <1>1. PICK t : t = Tail(s)
    OBVIOUS
  <1>2. /\ t \in Seq(T) /\ Len(s) \in Nat \ {0} /\ Len(t) = Len(s) - 1
        /\ DOMAIN t = 1 .. (Len(s) - 1) /\ DOMAIN s = 1 .. Len(s)
        /\ Head(s) = s[1] /\ \A i \in 1 .. (Len(s) - 1) : t[i] = s[i + 1]
    BY <1>1
  <1>3. S!Range(s) = {s[1]} \cup S!Range(t)
    <2>1. ASSUME NEW i \in DOMAIN s
          PROVE  s[i] \in {s[1]} \cup S!Range(t)
      <3>1. CASE i = 1
        BY <3>1
      <3>2. CASE i # 1
        <4>1. i - 1 \in DOMAIN t /\ t[i - 1] = s[i]
          BY <1>2, <3>2
        <4> QED
          BY <4>1 DEF S!Range
      <3> QED
        BY <3>1, <3>2
    <2>2. ASSUME NEW i \in DOMAIN t
          PROVE  t[i] \in S!Range(s)
      <3>1. i + 1 \in DOMAIN s /\ t[i] = s[i + 1]
        BY <1>2
      <3> QED
        BY <3>1 DEF S!Range
    <2>3. s[1] \in S!Range(s)
      BY <1>2 DEF S!Range
    <2> QED
      BY <2>1, <2>2, <2>3 DEF S!Range
  <1>4. ASSUME OnceIn(s, X)
        PROVE  OnceIn(t, X)
    <2> SUFFICES ASSUME NEW i \in DOMAIN t, NEW j \in DOMAIN t,
                        t[i] = t[j], t[i] \in X
                 PROVE  i = j
      BY DEF OnceIn
    <2>1. /\ i + 1 \in DOMAIN s /\ j + 1 \in DOMAIN s
          /\ s[i + 1] = s[j + 1] /\ s[i + 1] \in X
      BY <1>2
    <2>2. i + 1 = j + 1
      BY <1>4, <2>1 DEF OnceIn
    <2> QED
      BY <1>2, <2>2
  <1>5. ASSUME OnceIn(s, X), s[1] \in X
        PROVE  s[1] \notin S!Range(t)
    <2> SUFFICES ASSUME NEW i \in DOMAIN t, t[i] = s[1]
                 PROVE  FALSE
      BY DEF S!Range
    <2>1. /\ 1 \in DOMAIN s /\ i + 1 \in DOMAIN s /\ s[i + 1] = s[1]
      BY <1>2
    <2>2. i + 1 = 1
      BY <1>5, <2>1 DEF OnceIn
    <2> QED
      BY <1>2, <2>2
  <1> QED
    BY <1>1, <1>2, <1>3, <1>4, <1>5

LEMMA NoneOnce ==
  /\ S!Range(<<>>) = {}
  /\ \A X : OnceIn(<<>>, X)
  BY DEF S!Range, OnceIn

LEMMA LocalsStay ==
  ASSUME SignalInv, UNCHANGED <<S!signals, writing, wire>>,
         shutting' = shutting \/ shutting' # "up",
         connecting' = connecting \/ connecting' # "flag",
         flushing # <<>> => connecting' = "flush",
         writer \in {"lock", "write"} <=> writer' \in {"lock", "write"}
  PROVE  LocalInv'
  <1>1. /\ offerSent' = offerSent /\ preOffer' = preOffer /\ outbound' = outbound
        /\ flushing' = flushing /\ callback' = callback /\ writing' = writing
        /\ wire' = wire
    BY DEF S!signals
  <1>2. LocalInv
    BY DEF SignalInv
  <1>3. OfferLeads'
    BY <1>1, <1>2 DEF LocalInv, OfferLeads
  <1>4. OnePlace'
    BY <1>1, <1>2 DEF LocalInv, OnePlace
  <1>5. S!OfferFirst'
    BY <1>1, <1>2 DEF LocalInv, S!OfferFirst
  <1>6. S!CandidatesKept'
    BY <1>1, <1>2 DEF LocalInv, S!CandidatesKept
  <1> QED
    BY <1>3, <1>4, <1>5, <1>6 DEF LocalInv

LEMMA RemotesStay ==
  ASSUME SignalInv, UNCHANGED <<S!device, applied, held, added>>,
         shutting' = shutting \/ shutting' # "up"
  PROVE  RemoteInv'
  <1>1. inbox' = inbox /\ told' = told
    BY DEF S!device
  <1> QED
    BY <1>1 DEF SignalInv, RemoteInv, S!RemoteKept

\* The types of what the steps of a session leave alone, or move within.
LEMMA SignalTypes ==
  ASSUME S!TypeOK
  PROVE  /\ preOffer \in Seq(S!Locals) /\ flushing \in Seq(S!Locals)
         /\ outbound \in Seq(S!Locals) /\ Len(outbound) <= OutboundBuffer
         /\ callback \in [S!Locals -> {"none", "checked", "enqueue", "over"}]
         /\ writing \in S!Locals \cup {"nothing"}
         /\ wire \in Seq(S!Locals \cup {"offer", "pong"})
         /\ inbox \in Seq(Remotes \cup {"answer", "ping"})
         /\ held \subseteq Remotes /\ added \subseteq Remotes
         /\ tries \in 0 .. MaxTries /\ late \in BOOLEAN /\ stalled \in BOOLEAN
         /\ offerSent \in BOOLEAN /\ applied \in BOOLEAN /\ rpcOpen \in BOOLEAN
         /\ shutting \in {"up", "closing", "done"}
         /\ writer \in {"idle", "lock", "write", "shutting", "over"}
         /\ reader \in {"read", "lock", "write", "shutting", "over"}
  BY DEF S!TypeOK

\* A step that takes no message and moves no candidate.
LEMMA WorkersMove ==
  ASSUME SignalInv, S!TypeOK', HandshakeInv',
         UNCHANGED <<S!signals, writing, wire, S!device, applied, held, added>>,
         shutting' = shutting \/ shutting' # "up",
         connecting' = connecting \/ connecting' # "flag",
         flushing # <<>> => connecting' = "flush",
         writer \in {"lock", "write"} <=> writer' \in {"lock", "write"}
  PROVE  SignalInv'
  BY LocalsStay, RemotesStay DEF SignalInv

LEMMA ShutsDown ==
  ASSUME S!Shutdown, S!TypeOK
  PROVE  shutting' \in {"closing", "done"}
  BY DEF S!Shutdown, S!TypeOK

LEMMA LockTaken ==
  ASSUME SignalInv, NEW p \in S!Workers, S!TakeLock(p)
  PROVE  SignalInv'
  <1>1. /\ UNCHANGED <<late, S!signals, negotiator, writing, wire, stalled, S!device,
                       S!peer, shutting>>
        /\ lock' = p
        /\ p = "opener" => connecting = "lock" /\ connecting' = "write"
        /\ p # "opener" => connecting' = connecting
        /\ p = "writer" => writer = "lock" /\ writer' = "write"
        /\ p # "writer" => writer' = writer
        /\ reader' \in {"write", reader}
    BY DEF S!TakeLock, S!At, S!Move, S!Workers
  <1>2. S!TypeOK'
    BY <1>1 DEF SignalInv, S!TypeOK, S!signals, S!device, S!peer
  <1>3. HandshakeInv'
    BY <1>1 DEF SignalInv, HandshakeInv, S!peer
  <1>4. flushing # <<>> => connecting' = "flush"
    BY <1>1 DEF SignalInv, LocalInv, OfferLeads
  <1> QED
    BY <1>1, <1>2, <1>3, <1>4, WorkersMove DEF S!peer

LEMMA WireGrows ==
  ASSUME SignalInv, NEW m \in S!Locals \cup {"offer", "pong"},
         wire' = Append(wire, m),
         m \in S!Locals => offerSent /\ m \notin S!Range(wire)
  PROVE  /\ wire' \in Seq(S!Locals \cup {"offer", "pong"})
         /\ S!Range(wire') = S!Range(wire) \cup {m}
         /\ OnceIn(wire', S!Locals)
         /\ S!OfferFirst'
  <1>1. /\ wire \in Seq(S!Locals \cup {"offer", "pong"}) /\ Len(wire) \in Nat
        /\ OnceIn(wire, S!Locals) /\ S!OfferFirst
        /\ offerSent => "offer" \in S!Range(wire)
    BY SignalTypes DEF SignalInv, LocalInv, OnePlace, OfferLeads
  <1>2. /\ wire' \in Seq(S!Locals \cup {"offer", "pong"})
        /\ S!Range(wire') = S!Range(wire) \cup {m}
        /\ OnceIn(wire', S!Locals)
    BY <1>1, AppendedOnce
  <1>3. /\ DOMAIN wire' = 1 .. (Len(wire) + 1) /\ DOMAIN wire = 1 .. Len(wire)
        /\ wire'[Len(wire) + 1] = m
        /\ \A i \in 1 .. Len(wire) : wire'[i] = wire[i]
    BY <1>1
  <1>4. ASSUME NEW i \in DOMAIN wire', wire'[i] \in S!Locals
        PROVE  \E j \in 1 .. (i - 1) : wire'[j] = "offer"
    <2>1. CASE i \in 1 .. Len(wire)
      <3>1. PICK j \in 1 .. (i - 1) : wire[j] = "offer"
        BY <1>1, <1>3, <1>4, <2>1 DEF S!OfferFirst
      <3>2. j \in 1 .. Len(wire)
        BY <1>1, <2>1, <3>1
      <3> QED
        BY <1>3, <3>1, <3>2
    <2>2. CASE i = Len(wire) + 1
      <3>1. "offer" \in S!Range(wire)
        BY <1>1, <1>3, <1>4, <2>2
      <3>2. PICK j \in 1 .. Len(wire) : wire[j] = "offer"
        BY <1>3, <3>1 DEF S!Range
      <3> QED
        BY <1>1, <1>3, <2>2, <3>2
    <2> QED
      BY <1>1, <1>3, <2>1, <2>2
  <1> QED
    BY <1>2, <1>4 DEF S!OfferFirst, OnceIn

LEMMA MessageWritten ==
  ASSUME SignalInv, NEW p \in S!Workers, S!Write(p)
  PROVE  SignalInv'
  <1>1. /\ UNCHANGED <<late, S!signals, negotiator, stalled, S!device, S!peer,
                       shutting>>
        /\ wire' = Append(wire, S!Message(p)) /\ lock' = "nobody"
        /\ p = "opener" => connecting = "write" /\ connecting' = "flag"
        /\ p # "opener" => connecting' = connecting
        /\ p = "writer" => /\ writer = "write" /\ writer' = "idle"
                           /\ writing' = "nothing"
        /\ p # "writer" => writer' = writer /\ writing' = writing
        /\ reader' \in {"read", reader}
    BY DEF S!Write, S!At, S!Move, S!Workers
  <1>2. PICK m : m = S!Message(p)
    OBVIOUS
  <1>3. LocalInv /\ S!TypeOK /\ S!Locals \cap {"offer", "pong", "nothing"} = {}
    BY SignalingBounds DEF SignalInv
  <1>4. /\ p = "opener" => m = "offer" /\ m \notin S!Locals
        /\ p = "writer" => m = writing /\ m \in S!Locals /\ writing # "nothing"
        /\ p \notin {"opener", "writer"} => m = "pong" /\ m \notin S!Locals
    <2>1. p = "writer" => writing # "nothing"
      BY <1>1, <1>3 DEF LocalInv, OfferLeads
    <2> QED
      BY <1>2, <1>3, <2>1, SignalTypes DEF S!Message
  <1>5. m \in S!Locals => offerSent /\ m \notin S!Range(wire)
    BY <1>3, <1>4 DEF LocalInv, OfferLeads, OnePlace
  <1>6. /\ wire' \in Seq(S!Locals \cup {"offer", "pong"})
        /\ S!Range(wire') = S!Range(wire) \cup {m}
        /\ OnceIn(wire', S!Locals) /\ S!OfferFirst'
    BY <1>1, <1>2, <1>4, <1>5, WireGrows
  <1>7. /\ offerSent' = offerSent /\ preOffer' = preOffer /\ outbound' = outbound
        /\ flushing' = flushing /\ callback' = callback
    BY <1>1 DEF S!signals
  <1>8. S!TypeOK'
    BY <1>1, <1>3, <1>6, <1>7 DEF S!TypeOK, S!device, S!peer
  <1>9. OfferLeads'
    <2>1. m \in S!Locals => offerSent
      BY <1>5
    <2>2. offerSent \/ connecting' = "flag" => "offer" \in S!Range(wire')
      BY <1>1, <1>3, <1>4, <1>6 DEF LocalInv, OfferLeads
    <2>3. /\ writing' # "nothing" <=> writer' \in {"lock", "write"}
          /\ flushing' # <<>> => connecting' = "flush"
          /\ ~offerSent => writing' = "nothing"
      BY <1>1, <1>3, <1>7 DEF LocalInv, OfferLeads
    <2> QED
      BY <1>3, <1>6, <1>7, <2>1, <2>2, <2>3 DEF LocalInv, OfferLeads
  <1>10. OnePlace'
    <2>1. \A c \in S!Locals : callback[c] # "over" => c \notin S!Range(wire')
      BY <1>3, <1>4, <1>6 DEF LocalInv, OnePlace
    <2>2. S!Range(wire') \cap (S!Range(flushing) \cup S!Range(outbound)) = {}
      <3>1. S!Range(flushing) \cup S!Range(outbound) \subseteq S!Locals
        BY <1>3, SignalTypes DEF S!Range
      <3>2. m \notin S!Range(flushing) \cup S!Range(outbound)
        BY <1>3, <1>4, <3>1 DEF LocalInv, OnePlace
      <3> QED
        BY <1>3, <1>6, <3>2 DEF LocalInv, OnePlace
    <2>3. writing' \notin S!Range(flushing) \cup S!Range(outbound) \cup S!Range(wire')
      <3>1. CASE p = "writer"
        <4>1. /\ S!Range(flushing) \cup S!Range(outbound) \subseteq S!Locals
              /\ S!Range(wire') \subseteq S!Locals \cup {"offer", "pong"}
          BY <1>3, <1>6, SignalTypes DEF S!Range
        <4> QED
          BY <1>1, <1>3, <3>1, <4>1
      <3>2. CASE p # "writer"
        BY <1>1, <1>3, <1>4, <1>6, <3>2, SignalTypes DEF LocalInv, OnePlace
      <3> QED
        BY <3>1, <3>2
    <2> QED
      BY <1>1, <1>3, <1>6, <1>7, <2>1, <2>2, <2>3 DEF LocalInv, OnePlace
  <1>11. S!CandidatesKept'
    <2>1. \A c \in S!Locals : c = writing => c \in S!Range(wire') \cup {writing'}
      BY <1>1, <1>4, <1>6
    <2> QED
      BY <1>1, <1>3, <1>6, <1>7, <2>1 DEF LocalInv, S!CandidatesKept
  <1>12. RemoteInv' /\ HandshakeInv'
    BY <1>1, RemotesStay DEF SignalInv, HandshakeInv, S!peer
  <1> QED
    BY <1>6, <1>8, <1>9, <1>10, <1>11, <1>12 DEF SignalInv, LocalInv

LEMMA WriteFailed ==
  ASSUME SignalInv, NEW p \in S!Workers, S!WriteFails(p)
  PROVE  SignalInv'
  <1>0. S!TypeOK /\ LocalInv
    BY DEF SignalInv
  <1>1. /\ UNCHANGED <<late, S!signals, negotiator, wire, stalled, S!device,
                       S!peer>>
        /\ lock' = "nobody"
        /\ p = "opener" => connecting = "write" /\ connecting' = "failing"
        /\ p # "opener" => connecting' = connecting
        /\ p = "writer" => /\ writer = "write" /\ writer' = "shutting"
                           /\ writing' = "nothing" /\ S!Shutdown
        /\ p # "writer" => writer' = writer /\ writing' = writing
        /\ reader' \in {"shutting", reader}
        /\ shutting' = shutting \/ S!Shutdown
    BY DEF S!WriteFails, S!At, S!Move, S!Workers
  <1>2. /\ shutting' = shutting \/ shutting' # "up"
        /\ p = "writer" => shutting' # "up"
        /\ shutting' \in {"up", "closing", "done"}
    BY <1>0, <1>1, ShutsDown, SignalTypes
  <1>3. S!TypeOK'
    BY <1>0, <1>1, <1>2 DEF S!TypeOK, S!signals, S!device, S!peer
  <1>4. HandshakeInv'
    BY <1>1 DEF SignalInv, HandshakeInv, S!peer
  <1>5. RemoteInv'
    BY <1>1, <1>2, RemotesStay DEF S!peer
  <1>6. CASE p # "writer"
    <2>1. flushing # <<>> => connecting' = "flush"
      BY <1>0, <1>1 DEF LocalInv, OfferLeads
    <2> QED
      BY <1>1, <1>2, <1>3, <1>4, <1>6, <2>1, WorkersMove DEF S!peer
  <1>7. CASE p = "writer"
    <2>1. /\ offerSent' = offerSent /\ preOffer' = preOffer /\ outbound' = outbound
          /\ flushing' = flushing /\ callback' = callback /\ wire' = wire
          /\ connecting' = connecting /\ writing' = "nothing" /\ writer' = "shutting"
      BY <1>1, <1>7 DEF S!signals
    <2>2. /\ S!Range(flushing) \cup S!Range(outbound) \subseteq S!Locals
          /\ S!Range(wire) \subseteq S!Locals \cup {"offer", "pong"}
      BY <1>0, SignalTypes DEF S!Range
    <2>3. "nothing" \notin S!Locals
      BY SignalingBounds
    <2>4. OnePlace'
      BY <1>0, <2>1, <2>2, <2>3 DEF LocalInv, OnePlace
    <2>5. OfferLeads'
      BY <1>0, <2>1 DEF LocalInv, OfferLeads
    <2>6. S!OfferFirst' /\ S!CandidatesKept'
      BY <1>0, <1>2, <1>7, <2>1 DEF LocalInv, S!OfferFirst, S!CandidatesKept
    <2> QED
      BY <1>3, <1>4, <1>5, <2>4, <2>5, <2>6 DEF SignalInv, LocalInv
  <1> QED
    BY <1>6, <1>7

LEMMA MessageTaken ==
  ASSUME SignalInv, S!WriterTakes
  PROVE  SignalInv'
  <1>0. S!TypeOK /\ LocalInv /\ writer = "idle" /\ "nothing" \notin S!Locals
        /\ writing = "nothing"
    BY SignalingBounds DEF SignalInv, LocalInv, OfferLeads, S!WriterTakes
  <1>1. UNCHANGED <<connecting, late, offerSent, preOffer, flushing, callback,
                    reader, negotiator, lock, wire, stalled, S!device, S!peer,
                    shutting>>
    BY DEF S!WriterTakes
  <1>2. CASE writer' = "over" /\ UNCHANGED <<writing, outbound>>
    <2>1. S!TypeOK'
      BY <1>0, <1>1, <1>2 DEF S!TypeOK, S!device, S!peer
    <2>2. HandshakeInv'
      BY <1>1 DEF SignalInv, HandshakeInv, S!peer
    <2>3. flushing # <<>> => connecting' = "flush"
      BY <1>0, <1>1 DEF LocalInv, OfferLeads
    <2> QED
      BY <1>0, <1>1, <1>2, <2>1, <2>2, <2>3, WorkersMove DEF S!peer, S!signals
  <1>3. CASE /\ outbound # <<>> /\ writing' = Head(outbound)
             /\ outbound' = Tail(outbound) /\ writer' = "lock"
    <2>0. outbound \in Seq(S!Locals) /\ Len(outbound) <= OutboundBuffer
      BY <1>0, SignalTypes
    <2>1. /\ outbound' \in Seq(S!Locals) /\ writing' \in S!Locals
          /\ Len(outbound') <= OutboundBuffer
          /\ S!Range(outbound) = {writing'} \cup S!Range(outbound')
          /\ OnceIn(outbound', S!Locals) /\ writing' \notin S!Range(outbound')
      <3>1. OnceIn(outbound, S!Locals)
        BY <1>0 DEF LocalInv, OnePlace
      <3>2. Len(outbound') < Len(outbound) /\ outbound' \in Seq(S!Locals)
        BY <1>3, <2>0, TakenOnce
      <3>3. Len(outbound') <= OutboundBuffer
        BY <2>0, <3>2, SignalingBounds
      <3> QED
        BY <1>3, <2>0, <3>1, <3>2, <3>3, TakenOnce
    <2>2. S!TypeOK'
      BY <1>0, <1>1, <1>3, <2>1 DEF S!TypeOK, S!device, S!peer
    <2>3. OfferLeads'
      BY <1>0, <1>1, <1>3, <2>1 DEF LocalInv, OfferLeads
    <2>4. OnePlace'
      BY <1>0, <1>1, <2>1 DEF LocalInv, OnePlace
    <2>5. S!OfferFirst'
      BY <1>0, <1>1 DEF LocalInv, S!OfferFirst
    <2>6. S!CandidatesKept'
      BY <1>0, <1>1, <2>1 DEF LocalInv, S!CandidatesKept
    <2>7. RemoteInv' /\ HandshakeInv'
      BY <1>1, RemotesStay DEF SignalInv, HandshakeInv, S!peer
    <2> QED
      BY <2>2, <2>3, <2>4, <2>5, <2>6, <2>7 DEF SignalInv, LocalInv
  <1> QED
    BY <1>2, <1>3 DEF S!WriterTakes

LEMMA WorkersEnd ==
  ASSUME SignalInv, S!WorkerEnds \/ S!ReadFails \/ S!Negotiate
  PROVE  SignalInv'
  <1>0. S!TypeOK /\ MaxTries \in Nat \ {0} /\ HandshakeInv
    BY SignalingBounds DEF SignalInv
  <1>1. /\ UNCHANGED <<connecting, late, S!signals, S!socket, S!device, applied,
                       held, added, rpcOpen, hidChannel>>
        /\ writer' = writer \/ (writer = "shutting" /\ writer' = "over")
        /\ reader' \in {reader, "shutting", "over"}
        /\ shutting' = shutting \/ S!Shutdown
    BY DEF S!WorkerEnds, S!ReadFails, S!Negotiate, S!peer
  <1>2. /\ negotiator' \in {"open", "try", "wait", "shutting", "over"}
        /\ tries' \in 0 .. MaxTries
        /\ HandshakeInv'
    <2>1. CASE UNCHANGED <<negotiator, tries>>
      BY <1>0, <2>1 DEF S!TypeOK, HandshakeInv
    <2>2. CASE negotiator' = "over" /\ tries' = tries
      BY <1>0, <2>2 DEF S!TypeOK, HandshakeInv
    <2>3. CASE S!Negotiate
      BY <1>0, <2>3 DEF S!TypeOK, HandshakeInv, S!Negotiate
    <2> QED
      BY <2>1, <2>2, <2>3 DEF S!WorkerEnds, S!ReadFails, S!peer
  <1>3. /\ shutting' = shutting \/ shutting' # "up"
        /\ shutting' \in {"up", "closing", "done"}
    BY <1>0, <1>1, ShutsDown, SignalTypes
  <1>4. S!TypeOK'
    BY <1>0, <1>1, <1>2, <1>3 DEF S!TypeOK, S!signals, S!socket, S!device
  <1>5. flushing # <<>> => connecting' = "flush"
    BY <1>1 DEF SignalInv, LocalInv, OfferLeads
  <1> QED
    BY <1>1, <1>2, <1>3, <1>4, <1>5, WorkersMove DEF S!socket

LEMMA CandidateKept ==
  ASSUME SignalInv, NEW c \in S!Locals, S!Candidate(c)
  PROVE  SignalInv'
  <1>0. S!TypeOK /\ LocalInv
    BY DEF SignalInv
  <1>1. /\ callback[c] = "none"
        /\ callback' = [callback EXCEPT ![c] = IF offerSent THEN "enqueue" ELSE "over"]
        /\ preOffer' = IF offerSent THEN preOffer ELSE Append(preOffer, c)
        /\ UNCHANGED <<connecting, late, offerSent, outbound, flushing, writer,
                       reader, negotiator, S!socket, S!device, S!peer, shutting>>
    BY DEF S!Candidate
  <1>2. /\ preOffer \in Seq(S!Locals)
        /\ callback \in [S!Locals -> {"none", "checked", "enqueue", "over"}]
    BY <1>0, SignalTypes
  <1>3. /\ callback' \in [S!Locals -> {"none", "checked", "enqueue", "over"}]
        /\ callback'[c] = IF offerSent THEN "enqueue" ELSE "over"
        /\ \A b \in S!Locals \ {c} : callback'[b] = callback[b]
    BY <1>1, <1>2
  <1>4. /\ preOffer' \in Seq(S!Locals) /\ OnceIn(preOffer', S!Locals)
        /\ S!Range(preOffer') = S!Range(preOffer) \cup (IF offerSent THEN {} ELSE {c})
    <2>1. OnceIn(preOffer, S!Locals) /\ c \notin S!Range(preOffer)
      BY <1>0, <1>1 DEF LocalInv, OnePlace
    <2> QED
      BY <1>1, <1>2, <2>1, AppendedOnce
  <1>5. S!TypeOK'
    BY <1>0, <1>1, <1>3, <1>4 DEF S!TypeOK, S!socket, S!device, S!peer
  <1>6. writing' = writing /\ wire' = wire
    BY <1>1 DEF S!socket
  <1>7. OfferLeads'
    <2>1. ASSUME ~offerSent
          PROVE  \A b \in S!Locals : callback'[b] # "enqueue"
      BY <1>0, <1>3, <2>1 DEF LocalInv, OfferLeads
    <2> QED
      BY <1>0, <1>1, <1>6, <2>1 DEF LocalInv, OfferLeads
  <1>8. OnePlace'
    <2>1. ASSUME NEW b \in S!Locals, callback'[b] # "over"
          PROVE  b \notin S!Range(preOffer') \cup S!Range(flushing)
                            \cup S!Range(outbound) \cup {writing} \cup S!Range(wire)
      <3>1. callback[b] # "over"
        BY <1>1, <1>3, <2>1
      <3>2. b \notin S!Range(preOffer')
        BY <1>0, <1>3, <1>4, <2>1, <3>1 DEF LocalInv, OnePlace
      <3> QED
        BY <1>0, <3>1, <3>2 DEF LocalInv, OnePlace
    <2> QED
      BY <1>0, <1>1, <1>4, <1>6, <2>1 DEF LocalInv, OnePlace
  <1>9. S!OfferFirst'
    BY <1>0, <1>6 DEF LocalInv, S!OfferFirst
  <1>10. S!CandidatesKept'
    <2>1. ASSUME shutting = "up", NEW b \in S!Locals, callback'[b] = "over"
          PROVE  b \in S!Range(preOffer') \cup S!Range(flushing)
                         \cup S!Range(outbound) \cup {writing} \cup S!Range(wire)
      <3>1. CASE b = c
        BY <1>3, <1>4, <2>1, <3>1
      <3>2. CASE b # c
        BY <1>0, <1>3, <1>4, <2>1, <3>2 DEF LocalInv, S!CandidatesKept
      <3> QED
        BY <3>1, <3>2
    <2>2. offerSent => preOffer' = <<>>
      BY <1>0, <1>1 DEF LocalInv, OfferLeads
    <2> QED
      BY <1>1, <1>6, <2>1, <2>2 DEF S!CandidatesKept
  <1>11. RemoteInv' /\ HandshakeInv'
    BY <1>1, RemotesStay DEF SignalInv, HandshakeInv, S!peer
  <1> QED
    BY <1>5, <1>7, <1>8, <1>9, <1>10, <1>11 DEF SignalInv, LocalInv

\* Whoever brings a candidate to the queue.
LEMMA Enqueued ==
  ASSUME SignalInv, NEW c \in S!Locals, S!Enqueue(c), c \notin S!Range(outbound)
  PROVE  /\ outbound' \in Seq(S!Locals) /\ Len(outbound') <= OutboundBuffer
         /\ OnceIn(outbound', S!Locals)
         /\ \/ S!Range(outbound') = S!Range(outbound) \cup {c}
            \/ shutting # "up" /\ S!Range(outbound') = S!Range(outbound)
  <1>1. /\ outbound \in Seq(S!Locals) /\ Len(outbound) <= OutboundBuffer
        /\ OnceIn(outbound, S!Locals) /\ Len(outbound) \in Nat
        /\ OutboundBuffer \in Nat
    BY SignalTypes, SignalingBounds DEF SignalInv, LocalInv, OnePlace
  <1>2. CASE ~S!Full /\ outbound' = Append(outbound, c)
    <2>1. Len(outbound) + 1 <= OutboundBuffer
      BY <1>1, <1>2 DEF S!Full
    <2> QED
      BY <1>1, <1>2, <2>1, AppendedOnce
  <1>3. CASE S!Cancelled /\ UNCHANGED outbound
    BY <1>1, <1>3 DEF S!Cancelled
  <1> QED
    BY <1>2, <1>3 DEF S!Enqueue

LEMMA CandidateQueued ==
  ASSUME SignalInv, NEW c \in S!Locals, S!EnqueueCandidate(c)
  PROVE  SignalInv'
  <1>0. S!TypeOK /\ LocalInv
    BY DEF SignalInv
  <1>1. /\ callback[c] = "enqueue" /\ S!Enqueue(c)
        /\ callback' = [callback EXCEPT ![c] = "over"]
        /\ UNCHANGED <<connecting, late, offerSent, preOffer, flushing, writer,
                       reader, negotiator, S!socket, S!device, S!peer, shutting>>
    BY DEF S!EnqueueCandidate
  <1>2. /\ callback' \in [S!Locals -> {"none", "checked", "enqueue", "over"}]
        /\ callback'[c] = "over"
        /\ \A b \in S!Locals \ {c} : callback'[b] = callback[b]
    BY <1>0, <1>1, SignalTypes
  <1>3. c \notin S!Range(preOffer) \cup S!Range(flushing) \cup S!Range(outbound)
                   \cup {writing} \cup S!Range(wire)
    BY <1>0, <1>1 DEF LocalInv, OnePlace
  <1>4. /\ outbound' \in Seq(S!Locals) /\ Len(outbound') <= OutboundBuffer
        /\ OnceIn(outbound', S!Locals)
        /\ \/ S!Range(outbound') = S!Range(outbound) \cup {c}
           \/ shutting # "up" /\ S!Range(outbound') = S!Range(outbound)
    BY <1>1, <1>3, Enqueued
  <1>5. writing' = writing /\ wire' = wire
    BY <1>1 DEF S!socket
  <1>6. S!TypeOK'
    BY <1>0, <1>1, <1>2, <1>4 DEF S!TypeOK, S!socket, S!device, S!peer
  <1>7. OfferLeads'
    BY <1>0, <1>1, <1>2, <1>5 DEF LocalInv, OfferLeads
  <1>8. OnePlace'
    <2>1. S!Range(outbound') \subseteq S!Range(outbound) \cup {c}
      BY <1>4
    <2>2. \A b \in S!Locals : callback'[b] # "over" => b # c /\ callback[b] # "over"
      BY <1>2
    <2> QED
      BY <1>0, <1>1, <1>3, <1>4, <1>5, <2>1, <2>2 DEF LocalInv, OnePlace
  <1>9. S!OfferFirst'
    BY <1>0, <1>5 DEF LocalInv, S!OfferFirst
  <1>10. S!CandidatesKept'
    BY <1>0, <1>1, <1>2, <1>4, <1>5 DEF LocalInv, S!CandidatesKept
  <1>11. RemoteInv' /\ HandshakeInv'
    BY <1>1, RemotesStay DEF SignalInv, HandshakeInv, S!peer
  <1> QED
    BY <1>6, <1>7, <1>8, <1>9, <1>10, <1>11 DEF SignalInv, LocalInv

LEMMA OfferSends ==
  ASSUME SignalInv, S!SendOffer
  PROVE  SignalInv'
  <1>0. S!TypeOK /\ LocalInv
    BY DEF SignalInv
  <1>1. UNCHANGED <<late, outbound, callback, writer, reader, negotiator, S!socket,
                    S!device, S!peer, shutting>>
    BY DEF S!SendOffer
  <1>2. CASE /\ connecting = "offer" /\ connecting' \in {"lock", "failing"}
             /\ UNCHANGED <<offerSent, flushing, preOffer>>
    <2>1. S!TypeOK'
      BY <1>0, <1>1, <1>2 DEF S!TypeOK, S!socket, S!device, S!peer
    <2>2. HandshakeInv'
      BY <1>1 DEF SignalInv, HandshakeInv, S!peer
    <2>3. flushing # <<>> => connecting' = "flush"
      BY <1>0, <1>2 DEF LocalInv, OfferLeads
    <2> QED
      BY <1>1, <1>2, <2>1, <2>2, <2>3, WorkersMove
         DEF S!peer, S!signals, S!socket
  <1>3. CASE /\ connecting = "flag" /\ connecting' = "flush"
             /\ offerSent' = TRUE /\ flushing' = preOffer /\ preOffer' = <<>>
    <2>1. /\ writing' = writing /\ wire' = wire /\ outbound' = outbound
          /\ callback' = callback /\ writer' = writer /\ shutting' = shutting
      BY <1>1 DEF S!socket
    <2>2. /\ preOffer \in Seq(S!Locals) /\ preOffer' \in Seq(S!Locals)
          /\ S!Range(preOffer') = {} /\ OnceIn(preOffer', S!Locals)
      BY <1>0, <1>3, SignalTypes, NoneOnce
    <2>3. S!TypeOK'
      BY <1>0, <1>1, <1>3, <2>2 DEF S!TypeOK, S!socket, S!device, S!peer
    <2>4. OfferLeads'
      BY <1>0, <1>3, <2>1 DEF LocalInv, OfferLeads
    <2>5. offerSent \/ /\ S!Range(outbound) = {} /\ writing = "nothing"
                       /\ S!Range(wire) \cap S!Locals = {}
      BY <1>0, NoneOnce DEF LocalInv, OfferLeads
    <2>6. /\ S!Range(preOffer) \cap S!Range(outbound) = {}
          /\ S!Range(wire) \cap S!Range(preOffer) = {}
          /\ writing \notin S!Range(preOffer)
      <3>1. CASE offerSent
        <4>1. S!Range(preOffer) = {}
          BY <1>0, <3>1, NoneOnce DEF LocalInv, OfferLeads
        <4> QED
          BY <4>1
      <3>2. CASE ~offerSent
        <4>1. S!Range(preOffer) \subseteq S!Locals
          BY <2>2 DEF S!Range
        <4>2. "nothing" \notin S!Locals
          BY SignalingBounds
        <4> QED
          BY <2>5, <3>2, <4>1, <4>2
      <3> QED
        BY <3>1, <3>2
    <2>7. OnePlace'
      BY <1>0, <1>3, <2>1, <2>2, <2>6 DEF LocalInv, OnePlace
    <2>8. S!OfferFirst'
      BY <1>0, <2>1 DEF LocalInv, S!OfferFirst
    <2>9. S!CandidatesKept'
      <3>1. S!Range(flushing) = {}
        BY <1>0, <1>3, NoneOnce DEF LocalInv, OfferLeads
      <3> QED
        BY <1>0, <1>3, <2>1, <2>2, <3>1 DEF LocalInv, S!CandidatesKept
    <2>10. RemoteInv' /\ HandshakeInv'
      BY <1>1, RemotesStay DEF SignalInv, HandshakeInv, S!peer
    <2> QED
      BY <2>3, <2>4, <2>7, <2>8, <2>9, <2>10 DEF SignalInv, LocalInv
  <1> QED
    BY <1>2, <1>3 DEF S!SendOffer

LEMMA KeptFlushed ==
  ASSUME SignalInv, S!FlushKept
  PROVE  SignalInv'
  <1>0. S!TypeOK /\ LocalInv
    BY DEF SignalInv
  <1>1. /\ connecting = "flush"
        /\ UNCHANGED <<late, offerSent, preOffer, callback, writer, reader,
                       negotiator, S!socket, S!device, S!peer, shutting>>
    BY DEF S!FlushKept
  <1>2. CASE /\ flushing = <<>> /\ connecting' = "answer"
             /\ UNCHANGED <<flushing, outbound>>
    <2>1. S!TypeOK'
      BY <1>0, <1>1, <1>2 DEF S!TypeOK, S!socket, S!device, S!peer
    <2>2. HandshakeInv'
      BY <1>1 DEF SignalInv, HandshakeInv, S!peer
    <2> QED
      BY <1>1, <1>2, <2>1, <2>2, WorkersMove DEF S!peer, S!signals, S!socket
  <1>3. CASE /\ flushing # <<>> /\ S!Enqueue(Head(flushing))
             /\ flushing' = Tail(flushing) /\ UNCHANGED connecting
    <2>1. PICK c : c = Head(flushing)
      OBVIOUS
    <2>2. flushing \in Seq(S!Locals) /\ OnceIn(flushing, S!Locals)
      BY <1>0, SignalTypes DEF LocalInv, OnePlace
    <2>3. /\ flushing' \in Seq(S!Locals) /\ c \in S!Locals
          /\ S!Range(flushing) = {c} \cup S!Range(flushing')
          /\ OnceIn(flushing', S!Locals) /\ c \notin S!Range(flushing')
      BY <1>3, <2>1, <2>2, TakenOnce
    <2>4. c \notin S!Range(outbound) \cup S!Range(wire) \cup {writing}
      BY <1>0, <2>3 DEF LocalInv, OnePlace
    <2>5. /\ outbound' \in Seq(S!Locals) /\ Len(outbound') <= OutboundBuffer
          /\ OnceIn(outbound', S!Locals)
          /\ \/ S!Range(outbound') = S!Range(outbound) \cup {c}
             \/ shutting # "up" /\ S!Range(outbound') = S!Range(outbound)
      BY <1>3, <2>1, <2>3, <2>4, Enqueued
    <2>6. writing' = writing /\ wire' = wire
      BY <1>1 DEF S!socket
    <2>7. S!TypeOK'
      BY <1>0, <1>1, <1>3, <2>3, <2>5 DEF S!TypeOK, S!socket, S!device, S!peer
    <2>8. OfferLeads'
      BY <1>0, <1>1, <1>3, <2>6 DEF LocalInv, OfferLeads
    <2>9. OnePlace'
      <3>1. S!Range(outbound') \subseteq S!Range(outbound) \cup {c}
        BY <2>5
      <3>2. \A b \in S!Locals : callback[b] # "over" => b # c
        BY <1>0, <2>3 DEF LocalInv, OnePlace
      <3> QED
        BY <1>0, <1>1, <2>3, <2>4, <2>5, <2>6, <3>1, <3>2 DEF LocalInv, OnePlace
    <2>10. S!OfferFirst'
      BY <1>0, <2>6 DEF LocalInv, S!OfferFirst
    <2>11. S!CandidatesKept'
      BY <1>0, <1>1, <2>3, <2>5, <2>6 DEF LocalInv, S!CandidatesKept
    <2>12. RemoteInv' /\ HandshakeInv'
      BY <1>1, RemotesStay DEF SignalInv, HandshakeInv, S!peer
    <2> QED
      BY <2>7, <2>8, <2>9, <2>10, <2>11, <2>12 DEF SignalInv, LocalInv
  <1> QED
    BY <1>2, <1>3 DEF S!FlushKept

LEMMA OpenerMoves ==
  ASSUME SignalInv,
         \/ S!WaitReady \/ S!ShutAndJoin \/ S!Close \/ S!Deadline
         \/ S!Stall \/ S!PeerFails \/ S!PeerClosed \/ S!Over
  PROVE  SignalInv'
  <1>0. S!TypeOK
    BY DEF SignalInv
  <1>1. /\ UNCHANGED <<S!signals, writer, reader, negotiator, lock, writing, wire,
                       S!device, S!peer>>
        /\ \/ connecting' = connecting
           \/ /\ connecting # "flush"
              /\ connecting' \in {"rpc", "hid", "returned", "failing", "joining",
                                  "leaving", "failed", "closed", "closing"}
        /\ late' \in {late, TRUE} /\ stalled' \in {stalled, TRUE}
        /\ shutting' \in {shutting, "done"} \/ S!Shutdown
    BY DEF S!WaitReady, S!ShutAndJoin, S!Close, S!Deadline, S!Stall, S!PeerFails,
           S!PeerClosed, S!Over, S!socket, S!vars
  <1>2. /\ shutting' = shutting \/ shutting' # "up"
        /\ shutting' \in {"up", "closing", "done"}
    BY <1>0, <1>1, ShutsDown, SignalTypes
  <1>3. S!TypeOK'
    <2>1. /\ late' \in BOOLEAN /\ stalled' \in BOOLEAN
      BY <1>0, <1>1, SignalTypes
    <2>2. connecting' \in S!Ended \cup {"offer", "lock", "write", "flag", "flush",
            "answer", "rpc", "hid", "failing", "joining", "closing", "leaving"}
      BY <1>0, <1>1 DEF S!TypeOK, S!Ended
    <2> QED
      BY <1>0, <1>1, <1>2, <2>1, <2>2 DEF S!TypeOK, S!signals, S!device, S!peer
  <1>4. HandshakeInv'
    BY <1>1 DEF SignalInv, HandshakeInv, S!peer
  <1>5. flushing # <<>> => connecting' = "flush"
    BY <1>1 DEF SignalInv, LocalInv, OfferLeads
  <1> QED
    BY <1>1, <1>2, <1>3, <1>4, <1>5, WorkersMove DEF S!peer

LEMMA ChannelsOpen ==
  ASSUME SignalInv, S!Channels
  PROVE  SignalInv'
  <1>0. S!TypeOK
    BY DEF SignalInv
  <1>1. /\ UNCHANGED <<connecting, late, S!signals, writer, reader, negotiator,
                       S!socket, S!device, applied, held, added, tries>>
        /\ rpcOpen' \in {rpcOpen, TRUE}
        /\ hidChannel' \in {hidChannel, "open", "ready"}
        /\ shutting' = shutting \/ S!Shutdown
    BY DEF S!Channels
  <1>2. /\ shutting' = shutting \/ shutting' # "up"
        /\ shutting' \in {"up", "closing", "done"}
    BY <1>0, <1>1, ShutsDown, SignalTypes
  <1>3. S!TypeOK'
    <2>1. rpcOpen' \in BOOLEAN
      BY <1>0, <1>1, SignalTypes
    <2> QED
      BY <1>0, <1>1, <1>2, <2>1 DEF S!TypeOK, S!signals, S!device, S!socket
  <1>4. HandshakeInv'
    BY <1>1 DEF SignalInv, HandshakeInv
  <1>5. flushing # <<>> => connecting' = "flush"
    BY <1>1 DEF SignalInv, LocalInv, OfferLeads
  <1> QED
    BY <1>1, <1>2, <1>3, <1>4, <1>5, WorkersMove DEF S!socket

LEMMA MessageRead ==
  ASSUME SignalInv, S!Read
  PROVE  SignalInv'
  <1>0. S!TypeOK /\ RemoteInv /\ S!RemoteKept /\ Remotes \cap {"answer", "ping"} = {}
    BY SignalingBounds DEF SignalInv, RemoteInv
  <1>1. /\ reader = "read" /\ inbox # <<>> /\ inbox' = Tail(inbox)
        /\ UNCHANGED <<connecting, late, S!signals, writer, negotiator, S!socket,
                       told, rpcOpen, hidChannel, tries>>
    BY DEF S!Read
  <1>2. PICK m : m = Head(inbox)
    OBVIOUS
  <1>3. /\ inbox' \in Seq(Remotes \cup {"answer", "ping"})
        /\ m \in Remotes \cup {"answer", "ping"}
        /\ S!Range(inbox) = {m} \cup S!Range(inbox')
        /\ OnceIn(inbox', Remotes)
        /\ m \in Remotes => m \notin S!Range(inbox') /\ m \in told.from
    <2>1. inbox \in Seq(Remotes \cup {"answer", "ping"}) /\ OnceIn(inbox, Remotes)
      BY <1>0, SignalTypes DEF RemoteInv
    <2>2. /\ inbox' \in Seq(Remotes \cup {"answer", "ping"})
          /\ m \in Remotes \cup {"answer", "ping"}
          /\ S!Range(inbox) = {m} \cup S!Range(inbox')
          /\ OnceIn(inbox', Remotes)
          /\ m \in Remotes => m \notin S!Range(inbox')
      BY <1>1, <1>2, <2>1, TakenOnce
    <2> QED
      BY <1>0, <2>2 DEF RemoteInv
  <1>4. told.from \subseteq Remotes
    BY <1>0 DEF RemoteInv
  <1>5. \/ /\ m = "answer" /\ applied' = TRUE /\ added' = added \cup held
           /\ held' = {} /\ UNCHANGED <<reader, shutting>>
        \/ /\ m \in Remotes
           /\ IF applied THEN added' = added \cup {m} /\ UNCHANGED held
              ELSE held' = held \cup {m} /\ UNCHANGED added
           /\ UNCHANGED <<applied, reader, shutting>>
        \/ /\ m = "ping" /\ reader' = "lock"
           /\ UNCHANGED <<applied, held, added, shutting>>
        \/ /\ m # "ping" /\ reader' = "shutting" /\ S!Shutdown
           /\ UNCHANGED <<applied, held, added>>
    BY <1>2 DEF S!Read
  <1>6. /\ applied' \in BOOLEAN /\ held' \subseteq Remotes /\ added' \subseteq Remotes
        /\ reader' \in {"lock", "shutting", reader}
        /\ shutting' = shutting \/ shutting' # "up"
        /\ shutting' \in {"up", "closing", "done"}
        /\ S!RemoteKept'
    <2>0. /\ applied \in BOOLEAN /\ held \subseteq Remotes /\ added \subseteq Remotes
          /\ shutting \in {"up", "closing", "done"}
      BY <1>0, SignalTypes
    <2>1. CASE /\ m = "answer" /\ applied' = TRUE /\ added' = added \cup held
               /\ held' = {} /\ UNCHANGED <<reader, shutting>>
      <3>1. told.from \ S!Range(inbox') = told.from \ S!Range(inbox)
        BY <1>0, <1>3, <1>4, <2>1
      <3> QED
        BY <1>0, <1>1, <2>0, <2>1, <3>1 DEF S!RemoteKept
    <2>2. CASE /\ m \in Remotes
               /\ IF applied THEN added' = added \cup {m} /\ UNCHANGED held
                  ELSE held' = held \cup {m} /\ UNCHANGED added
               /\ UNCHANGED <<applied, reader, shutting>>
      <3>1. told.from \ S!Range(inbox') = (told.from \ S!Range(inbox)) \cup {m}
        BY <1>3, <2>2
      <3> QED
        BY <1>0, <1>1, <2>0, <2>2, <3>1 DEF S!RemoteKept
    <2>3. CASE /\ m = "ping" /\ reader' = "lock"
               /\ UNCHANGED <<applied, held, added, shutting>>
      <3>1. told.from \ S!Range(inbox') = told.from \ S!Range(inbox)
        BY <1>0, <1>3, <1>4, <2>3
      <3> QED
        BY <1>0, <1>1, <2>0, <2>3, <3>1 DEF S!RemoteKept
    <2>4. CASE /\ m # "ping" /\ reader' = "shutting" /\ S!Shutdown
               /\ UNCHANGED <<applied, held, added>>
      <3>1. shutting' \in {"closing", "done"}
        BY <1>0, <2>4, ShutsDown
      <3> QED
        BY <1>0, <1>1, <2>0, <2>4, <3>1 DEF S!RemoteKept
    <2> QED
      BY <1>5, <2>1, <2>2, <2>3, <2>4
  <1>7. S!TypeOK'
    BY <1>0, <1>1, <1>3, <1>6 DEF S!TypeOK, S!signals, S!socket
  <1>8. RemoteInv'
    BY <1>0, <1>1, <1>3, <1>6 DEF RemoteInv
  <1>9. LocalInv'
    <2>1. flushing # <<>> => connecting' = "flush"
      BY <1>1 DEF SignalInv, LocalInv, OfferLeads
    <2> QED
      BY <1>1, <1>6, <2>1, LocalsStay DEF S!socket
  <1>10. HandshakeInv'
    BY <1>1 DEF SignalInv, HandshakeInv
  <1> QED
    BY <1>7, <1>8, <1>9, <1>10 DEF SignalInv

LEMMA MessageComes ==
  ASSUME SignalInv, NEW m \in Remotes \cup {"answer", "ping"}, S!DeviceSends(m)
  PROVE  SignalInv'
  <1>0. S!TypeOK /\ RemoteInv /\ S!RemoteKept /\ Remotes \cap {"answer", "ping"} = {}
    BY SignalingBounds DEF SignalInv, RemoteInv
  <1>1. /\ inbox' = Append(inbox, m)
        /\ UNCHANGED <<connecting, late, S!signals, writer, reader, negotiator,
                       S!socket, S!peer, shutting>>
    BY DEF S!DeviceSends
  <1>2. /\ told' \in [answer: BOOLEAN, from: SUBSET Remotes, pings: Nat]
        /\ m \in Remotes => m \notin told.from /\ told'.from = told.from \cup {m}
        /\ m \notin Remotes => told'.from = told.from
    <2>1. told \in [answer: BOOLEAN, from: SUBSET Remotes, pings: Nat]
      BY <1>0 DEF RemoteInv
    <2>2. CASE m = "ping"
      <3>1. told' = [told EXCEPT !.pings = @ + 1]
        BY <2>2 DEF S!DeviceSends
      <3> QED
        BY <1>0, <2>1, <2>2, <3>1
    <2>3. CASE m = "answer"
      <3>1. told' = [told EXCEPT !.answer = TRUE]
        BY <2>3 DEF S!DeviceSends
      <3> QED
        BY <1>0, <2>1, <2>3, <3>1
    <2>4. CASE m \in Remotes
      <3>1. m # "ping" /\ m # "answer"
        BY <1>0, <2>4
      <3>2. m \notin told.from /\ told' = [told EXCEPT !.from = @ \cup {m}]
        BY <3>1 DEF S!DeviceSends
      <3> QED
        BY <2>1, <2>4, <3>2
    <2> QED
      BY <2>2, <2>3, <2>4
  <1>3. /\ inbox' \in Seq(Remotes \cup {"answer", "ping"})
        /\ S!Range(inbox') = S!Range(inbox) \cup {m}
        /\ OnceIn(inbox', Remotes)
    <2>1. inbox \in Seq(Remotes \cup {"answer", "ping"}) /\ OnceIn(inbox, Remotes)
      BY <1>0, SignalTypes DEF RemoteInv
    <2>2. m \in Remotes => m \notin S!Range(inbox)
      BY <1>0, <1>2 DEF RemoteInv
    <2> QED
      BY <1>1, <2>1, <2>2, AppendedOnce
  <1>4. told'.from \ S!Range(inbox') = told.from \ S!Range(inbox)
    <2>1. told.from \subseteq Remotes
      BY <1>0 DEF RemoteInv
    <2> QED
      BY <1>2, <1>3, <2>1
  <1>5. S!RemoteKept'
    BY <1>0, <1>1, <1>4 DEF S!RemoteKept, S!peer
  <1>6. RemoteInv'
    BY <1>0, <1>2, <1>3, <1>5 DEF RemoteInv
  <1>7. S!TypeOK'
    BY <1>0, <1>1, <1>3 DEF S!TypeOK, S!signals, S!socket, S!peer
  <1>8. LocalInv'
    <2>1. flushing # <<>> => connecting' = "flush"
      BY <1>1 DEF SignalInv, LocalInv, OfferLeads
    <2> QED
      BY <1>1, <2>1, LocalsStay DEF S!socket
  <1>9. HandshakeInv'
    BY <1>1 DEF SignalInv, HandshakeInv, S!peer
  <1> QED
    BY <1>6, <1>7, <1>8, <1>9 DEF SignalInv

LEMMA SignalStep ==
  ASSUME SignalInv, [S!Next]_(S!vars)
  PROVE  SignalInv'
  <1>1. ASSUME NEW p \in S!Workers, S!TakeLock(p) \/ S!Write(p) \/ S!WriteFails(p)
        PROVE  SignalInv'
    BY <1>1, LockTaken, MessageWritten, WriteFailed
  <1>2. {"opener", "writer", "reader"} = S!Workers
    BY DEF S!Workers
  <1>3. CASE S!OpenerStep
    BY <1>1, <1>2, <1>3, OfferSends, KeptFlushed, OpenerMoves DEF S!OpenerStep
  <1>4. CASE S!WriterStep
    BY <1>1, <1>2, <1>4, MessageTaken DEF S!WriterStep
  <1>5. CASE S!ReaderStep
    BY <1>1, <1>2, <1>5, MessageRead DEF S!ReaderStep
  <1>6. CASE S!CallbackStep
    BY <1>6, CandidateKept, CandidateQueued DEF S!CallbackStep
  <1>7. CASE S!DeviceStep
    BY <1>7, MessageComes, ChannelsOpen, OpenerMoves DEF S!DeviceStep
  <1>8. CASE S!ReadFails \/ S!WorkerEnds \/ S!Negotiate
    BY <1>8, WorkersEnd
  <1>9. CASE S!Close \/ S!Deadline \/ S!PeerClosed \/ S!Over
    BY <1>9, OpenerMoves
  <1>10. CASE UNCHANGED S!vars
    <2>1. /\ UNCHANGED <<connecting, late, S!signals, writer, reader, negotiator,
                         S!socket, S!device, S!peer, shutting>>
      BY <1>10 DEF S!vars
    <2>2. S!TypeOK'
      BY <2>1 DEF SignalInv, S!TypeOK, S!signals, S!socket, S!device, S!peer
    <2>3. HandshakeInv'
      BY <2>1 DEF SignalInv, HandshakeInv, S!peer
    <2>4. flushing # <<>> => connecting' = "flush"
      BY <2>1 DEF SignalInv, LocalInv, OfferLeads
    <2> QED
      BY <2>1, <2>2, <2>3, <2>4, WorkersMove DEF S!socket, S!peer
  <1> QED
    BY <1>3, <1>4, <1>5, <1>6, <1>7, <1>8, <1>9, <1>10 DEF S!Next

LEMMA SignalStarts ==
  ASSUME S!Init
  PROVE  SignalInv
  <1>1. /\ offerSent = FALSE /\ preOffer = <<>> /\ outbound = <<>> /\ flushing = <<>>
        /\ connecting = "offer" /\ writing = "nothing" /\ wire = <<>>
        /\ writer = "idle" /\ inbox = <<>> /\ negotiator = "open" /\ tries = 0
        /\ callback = [c \in S!Locals |-> "none"] /\ shutting = "up"
        /\ told = [answer |-> FALSE, from |-> {}, pings |-> 0]
        /\ applied = FALSE /\ held = {} /\ added = {}
    BY DEF S!Init
  <1>2. MaxTries \in Nat \ {0} /\ OutboundBuffer \in Nat /\ "nothing" \notin S!Locals
    BY SignalingBounds
  <1>3. S!TypeOK
    <2>1. /\ connecting \in S!Ended \cup {"offer", "lock", "write", "flag", "flush",
               "answer", "rpc", "hid", "failing", "joining", "closing", "leaving"}
          /\ lock \in S!Workers \cup {"nobody"}
          /\ writer \in {"idle", "lock", "write", "shutting", "over"}
          /\ reader \in {"read", "lock", "write", "shutting", "over"}
          /\ negotiator \in {"open", "try", "wait", "shutting", "over"}
          /\ hidChannel \in {"closed", "open", "ready"}
          /\ shutting \in {"up", "closing", "done"}
      BY Zenon DEF S!Init
    <2>2. late \in BOOLEAN /\ offerSent \in BOOLEAN /\ stalled \in BOOLEAN
      BY Zenon DEF S!Init
    <2>3. applied \in BOOLEAN /\ rpcOpen \in BOOLEAN
      BY Zenon DEF S!Init
    <2>4. /\ preOffer \in Seq(S!Locals) /\ flushing \in Seq(S!Locals)
          /\ outbound \in Seq(S!Locals)
          /\ wire \in Seq(S!Locals \cup {"offer", "pong"})
          /\ inbox \in Seq(Remotes \cup {"answer", "ping"})
      BY <1>1
    <2>5. Len(outbound) <= OutboundBuffer
      BY <1>1, <1>2
    <2>6. callback \in [S!Locals -> {"none", "checked", "enqueue", "over"}]
      BY <1>1
    <2>7. writing \in S!Locals \cup {"nothing"}
      BY <1>1
    <2>8. held \subseteq Remotes /\ added \subseteq Remotes
      BY <1>1
    <2>9. tries \in 0 .. MaxTries
      BY <1>1, <1>2
    <2> QED
      BY <2>1, <2>2, <2>3, <2>4, <2>5, <2>6, <2>7, <2>8, <2>9, Zenon DEF S!TypeOK
  <1>4. LocalInv
    <2>1. OfferLeads
      BY <1>1, NoneOnce DEF OfferLeads
    <2>2. OnePlace
      BY <1>1, <1>2, NoneOnce DEF OnePlace
    <2>3. S!OfferFirst
      BY <1>1 DEF S!OfferFirst
    <2>4. S!CandidatesKept
      BY <1>1 DEF S!CandidatesKept
    <2> QED
      BY <2>1, <2>2, <2>3, <2>4 DEF LocalInv
  <1>5. RemoteInv
    BY <1>1, NoneOnce DEF RemoteInv, S!RemoteKept
  <1> QED
    BY <1>1, <1>2, <1>3, <1>4, <1>5 DEF SignalInv, HandshakeInv

\* One session by itself, for any local candidates in any order, any of the device,
\* any queue, handshakes and pings: no candidate before the offer or twice, none
\* lost while the session is up, and those of the device at the peer with the
\* answer and only then (session.go, signaling.go).
THEOREM CandidatesFlow ==
  S!Spec => [](S!OfferFirst /\ S!CandidatesKept /\ S!RemoteKept)
  <1>1. SignalInv => S!OfferFirst /\ S!CandidatesKept /\ S!RemoteKept
    BY DEF SignalInv, LocalInv, RemoteInv
  <1> QED
    BY <1>1, SignalStarts, SignalStep, PTL DEF S!Spec

\* In the composition a session comes up as it does alone: restricted or not,
\* its steps are those of Signaling.
LEMMA HasSignaling == LinkSpec => S!Spec
  <1>1. LinkInit => S!Init
    BY DEF LinkInit
  <1>2. [LinkNext]_linkVars => [S!Next]_(S!vars)
    <2> SUFFICES ASSUME [LinkNext]_linkVars
                 PROVE  [S!Next]_(S!vars)
      OBVIOUS
    <2>1. S!Next \/ UNCHANGED signalingVars
      BY DEF LinkNext, linkVars
    <2> QED
      BY <2>1 DEF signalingVars, S!vars, S!signals, S!socket, S!device, S!peer
  <1> QED
    BY <1>1, <1>2, PTL DEF LinkSpec, S!Spec

\* Candidates in order, in the composition (session.go, signaling.go).
THEOREM CandidatesOrdered == LinkSpec => []CandidatesInOrder
  <1>1. SignalInv => CandidatesInOrder
    BY DEF SignalInv, LocalInv, RemoteInv, CandidatesInOrder
  <1>2. S!Spec => []SignalInv
    BY SignalStarts, SignalStep, PTL DEF S!Spec
  <1> QED
    BY <1>1, <1>2, HasSignaling, PTL

(***************************************************************************)
(* RtpReceive                                                              *)
(***************************************************************************)

LEMMA Divided ==
  ASSUME NEW T \in Nat \ {0}, NEW a \in Int
  PROVE  \E q \in Int, r \in 0 .. T - 1 : a = T * q + r /\ a % T = r
  <1>1. a \div T \in Int /\ a % T \in 0 .. T - 1 /\ a = T * (a \div T) + (a % T)
    OBVIOUS
  <1> QED
    BY <1>1

LEMMA Remainder ==
  ASSUME NEW T \in Nat \ {0}, NEW q \in Int, NEW r \in 0 .. T - 1
  PROVE  (T * q + r) % T = r
  OBVIOUS

\* What is not farther apart than there are numbers has the distance its numbers
\* have.
LEMMA Apart ==
  ASSUME NEW T \in Nat \ {0}, NEW a \in Nat, NEW b \in Nat, NEW d \in 0 .. T - 1,
         a = b + d
  PROVE  ((a % T) - (b % T)) % T = d
  <1>0. a \in Int /\ b \in Int
    OBVIOUS
  <1>1. PICK p \in Int, r \in 0 .. T - 1 : a = T * p + r /\ a % T = r
    BY <1>0, Divided, Zenon
  <1>2. PICK q \in Int, s \in 0 .. T - 1 : b = T * q + s /\ b % T = s
    BY <1>0, Divided, Zenon
  <1>3. T * (q - p) = T * q - T * p
    OBVIOUS
  <1>4. r - s = T * (q - p) + d
    BY <1>1, <1>2, <1>3
  <1>5. (T * (q - p) + d) % T = d
    BY Remainder
  <1> QED
    BY <1>1, <1>2, <1>4, <1>5

LEMMA Behindhand ==
  ASSUME NEW T \in Nat \ {0}, NEW a \in Nat, NEW b \in Nat, NEW d \in 1 .. T - 1,
         b = a + d
  PROVE  ((a % T) - (b % T)) % T = T - d
  <1>0. a \in Int /\ b \in Int
    OBVIOUS
  <1>1. PICK p \in Int, r \in 0 .. T - 1 : a = T * p + r /\ a % T = r
    BY <1>0, Divided, Zenon
  <1>2. PICK q \in Int, s \in 0 .. T - 1 : b = T * q + s /\ b % T = s
    BY <1>0, Divided, Zenon
  <1>3. T * (q - p - 1) = T * q - T * p - T
    OBVIOUS
  <1>4. r - s = T * (q - p - 1) + (T - d)
    BY <1>1, <1>2, <1>3
  <1>5. (T * (q - p - 1) + (T - d)) % T = T - d
    BY Remainder
  <1> QED
    BY <1>1, <1>2, <1>4, <1>5

LEMMA Following ==
  ASSUME NEW T \in Nat \ {0}, NEW a \in Nat
  PROVE  ((a % T) + 1) % T = (a + 1) % T
  <1>0. a \in Int
    OBVIOUS
  <1>1. PICK p \in Int, r \in 0 .. T - 1 : a = T * p + r /\ a % T = r
    BY <1>0, Divided, Zenon
  <1>2. CASE r = T - 1
    <2>1. T * (p + 1) = T * p + T
      OBVIOUS
    <2>2. a + 1 = T * (p + 1) + 0 /\ r + 1 = T * 1 + 0
      BY <1>1, <1>2, <2>1
    <2>3. (T * (p + 1) + 0) % T = 0 /\ (T * 1 + 0) % T = 0
      BY Remainder
    <2> QED
      BY <1>1, <2>2, <2>3
  <1>3. CASE r # T - 1
    <2>1. r + 1 \in 0 .. T - 1
      BY <1>3
    <2>2. (T * p + (r + 1)) % T = r + 1 /\ (T * 0 + (r + 1)) % T = r + 1
      BY <2>1, Remainder
    <2> QED
      BY <1>1, <2>2
  <1> QED
    BY <1>2, <1>3

Places == DOMAIN Stream

LEMMA StreamFacts ==
  /\ Places = 1 .. Len(Stream) /\ Len(Stream) \in Nat /\ Len(Stream) < SeqSpace
  /\ \A k \in Places : Stream[k].unit \in Nat \ {0} /\ Stream[k].kind \in Kinds
  /\ \A k \in Places : 2 * Stream[k].unit <= TimeSpace
  /\ SeqSpace \in Nat \ {0} /\ TimeSpace \in Nat \ {0} /\ MaxPackets \in Nat \ {0}
  /\ FirstSeq \in Nat /\ FirstTime \in Nat /\ Window \in Nat /\ MaxCopies \in Nat
  <1> DEFINE X == [unit: Nat \ {0}, kind: Kinds]
  <1>1. Stream \in Seq(X)
    BY StreamAssumption
  <1> HIDE DEF X
  <1>2. /\ Places = 1 .. Len(Stream) /\ Len(Stream) \in Nat
        /\ \A k \in Places : Stream[k] \in X
    BY <1>1 DEF Places
  <1> USE DEF X
  <1>3. \A k \in Places : Stream[k].unit \in Nat \ {0} /\ Stream[k].kind \in Kinds
    BY <1>2
  <1> QED
    BY <1>2, <1>3, BoundsAssumption, WrapAssumption DEF Places

\* Pictures are sent one after the other.
LEMMA InTurn ==
  /\ \A j, k \in Places : j <= k => Stream[j].unit <= Stream[k].unit
  /\ \A j, k \in Places : k = j + 1 => Stream[k].unit <= Stream[j].unit + 1
  /\ \A j \in Places :
       \E k \in Places :
         Stream[k].unit = Stream[j].unit /\ Stream[k].kind \in Coded
  BY StreamAssumption, Zenon DEF Places

Sent == {Packets[k] : k \in Places}

LEMMA Fields ==
  ASSUME NEW k \in Places
  PROVE  /\ Packets[k] \in Sent
         /\ Packets[k].unit = Stream[k].unit /\ Packets[k].kind = Stream[k].kind
         /\ Packets[k].marker = Ends(k) /\ Packets[k].marker \in BOOLEAN
         /\ Packets[k].ts = (FirstTime + Stream[k].unit) % TimeSpace
         /\ Packets[k].ts \in Nat
         /\ Packets[k].seq = (FirstSeq + k) % SeqSpace
         /\ Packets[k].seq \in Nat
  <1>1. Packets[k] = [unit |-> Stream[k].unit, kind |-> Stream[k].kind,
                      marker |-> Ends(k),
                      ts |-> (FirstTime + Stream[k].unit) % TimeSpace,
                      seq |-> (FirstSeq + k) % SeqSpace]
    BY DEF Packets, Places
  <1>2. Packets[k] \in Sent
    BY DEF Sent
  <1>3. FirstTime + Stream[k].unit \in Nat /\ FirstSeq + k \in Nat
    BY StreamFacts, SMTT(30)
  <1>4. \A a \in Nat, b \in Nat \ {0} : a % b \in Nat
    OBVIOUS
  <1>5. Ends(k) \in BOOLEAN
    BY DEF Ends
  <1> QED
    BY <1>1, <1>2, <1>3, <1>4, <1>5, StreamFacts

\* How far a packet is behind another is seen from their numbers.
LEMMA Distance ==
  ASSUME NEW j \in Places, NEW k \in Places, j <= k
  PROVE  (Packets[k].seq - Packets[j].seq) % SeqSpace = k - j
  <1> DEFINE a == FirstSeq + k
             b == FirstSeq + j
             d == k - j
  <1>1. a \in Nat /\ b \in Nat /\ d \in 0 .. SeqSpace - 1 /\ a = b + d
    BY StreamFacts, SMTT(30)
  <1> HIDE DEF a, b, d
  <1>2. ((a % SeqSpace) - (b % SeqSpace)) % SeqSpace = d
    BY <1>1, StreamFacts, Apart
  <1> QED
    BY <1>2, Fields DEF a, b, d

\* A number belongs to one packet, and the next number to the next.
LEMMA SameNumber ==
  ASSUME NEW j \in Nat, NEW k \in Nat, j - k < SeqSpace, k - j < SeqSpace,
         (FirstSeq + j) % SeqSpace = (FirstSeq + k) % SeqSpace
  PROVE  j = k
  <1>1. ASSUME NEW m \in Nat, NEW n \in Nat, m <= n, n - m < SeqSpace,
               (FirstSeq + n) % SeqSpace = (FirstSeq + m) % SeqSpace
        PROVE  n = m
    <2> DEFINE a == FirstSeq + n
               b == FirstSeq + m
               d == n - m
    <2>1. a \in Nat /\ b \in Nat /\ d \in 0 .. SeqSpace - 1 /\ a = b + d
      BY <1>1, StreamFacts
    <2>2. a % SeqSpace = b % SeqSpace
      BY <1>1
    <2>3. a % SeqSpace \in Int /\ 0 % SeqSpace = 0
      BY <2>1, StreamFacts
    <2> HIDE DEF a, b, d
    <2>4. ((a % SeqSpace) - (b % SeqSpace)) % SeqSpace = d
      BY <2>1, StreamFacts, Apart
    <2>5. (a % SeqSpace) - (b % SeqSpace) = 0
      BY <2>2, <2>3
    <2>6. d = 0
      BY <2>3, <2>4, <2>5
    <2> QED
      BY <2>6 DEF d
  <1>2. j <= k \/ k <= j
    OBVIOUS
  <1> QED
    BY <1>1, <1>2

LEMMA SamePlace ==
  ASSUME NEW j \in Places, NEW k \in Places, Packets[j].seq = Packets[k].seq
  PROVE  j = k
  <1>1. j \in Nat /\ k \in Nat /\ j - k < SeqSpace /\ k - j < SeqSpace
    BY StreamFacts
  <1>2. (FirstSeq + j) % SeqSpace = (FirstSeq + k) % SeqSpace
    BY Fields
  <1> QED
    BY <1>1, <1>2, SameNumber

LEMMA OneAhead ==
  ASSUME NEW j \in Places, NEW k \in Places,
         Packets[k].seq = (Packets[j].seq + 1) % SeqSpace
  PROVE  k = j + 1
  <1>1. /\ j \in Nat /\ k \in Nat /\ j + 1 \in Nat
        /\ (j + 1) - k < SeqSpace /\ k - (j + 1) < SeqSpace
    BY StreamFacts
  <1>2. FirstSeq + j \in Nat /\ FirstSeq + (j + 1) = (FirstSeq + j) + 1
    BY <1>1, StreamFacts
  <1>3. (((FirstSeq + j) % SeqSpace) + 1) % SeqSpace = ((FirstSeq + j) + 1) % SeqSpace
    BY <1>2, StreamFacts, Following
  <1>4. (FirstSeq + (j + 1)) % SeqSpace = (FirstSeq + k) % SeqSpace
    BY <1>2, <1>3, Fields
  <1>5. j + 1 = k
    BY <1>1, <1>4, SameNumber
  <1> QED
    BY <1>5

\* A timestamp belongs to one picture, and later ones to later pictures.
LEMMA LaterPicture ==
  ASSUME NEW j \in Places, NEW k \in Places
  PROVE  /\ After(Packets[k].ts, Packets[j].ts) => Stream[j].unit < Stream[k].unit
         /\ Packets[k].ts = Packets[j].ts => Stream[j].unit = Stream[k].unit
  <1> DEFINE half == TimeSpace \div 2
             x == Stream[k].unit
             y == Stream[j].unit
             a == FirstTime + x
             b == FirstTime + y
             d == x - y
             e == y - x
  <1>0. /\ x \in Nat \ {0} /\ 2 * x <= TimeSpace /\ FirstTime \in Nat
        /\ y \in Nat \ {0} /\ 2 * y <= TimeSpace /\ TimeSpace \in Nat \ {0}
    BY StreamFacts
  <1>4. Packets[k].ts = a % TimeSpace /\ Packets[j].ts = b % TimeSpace
    BY Fields
  <1>u. x = Stream[k].unit /\ y = Stream[j].unit
    OBVIOUS
  <1> HIDE DEF x, y
  <1>1. a \in Nat /\ b \in Nat /\ a = b + d /\ b = a + e /\ e = -d /\ d \in Int
    BY <1>0
  <1>2. half \in Nat /\ 2 * half <= TimeSpace /\ TimeSpace \in Nat \ {0}
    BY <1>0
  <1>3. 2 * d < TimeSpace /\ 2 * e < TimeSpace
    BY <1>0
  <1>5. d = 0 \/ d > 0 \/ e > 0
    BY <1>1
  <1>6. After(Packets[k].ts, Packets[j].ts) =>
          ((a % TimeSpace) - (b % TimeSpace)) % TimeSpace \in 1 .. half - 1
    BY <1>4 DEF After
  <1>7. a % TimeSpace \in Int /\ b % TimeSpace \in Int /\ 0 % TimeSpace = 0
    BY <1>1, <1>2
  <1> HIDE DEF half, a, b, d, e
  <1>8. CASE d > 0
    <2>1. d \in 0 .. TimeSpace - 1
      BY <1>1, <1>2, <1>3, <1>8
    <2>2. ((a % TimeSpace) - (b % TimeSpace)) % TimeSpace = d
      BY <1>1, <1>2, <2>1, Apart
    <2>3. a % TimeSpace # b % TimeSpace
      BY <1>7, <1>8, <2>2, <1>1
    <2>4. Stream[j].unit < Stream[k].unit
      BY <1>0, <1>8, <1>u DEF d
    <2> QED
      BY <1>4, <2>3, <2>4
  <1>9. CASE d = 0
    <2>1. d \in 0 .. TimeSpace - 1
      BY <1>2, <1>9
    <2>2. ((a % TimeSpace) - (b % TimeSpace)) % TimeSpace = 0
      BY <1>1, <1>2, <1>9, <2>1, Apart
    <2>3. ~After(Packets[k].ts, Packets[j].ts)
      BY <1>6, <2>2, <1>2
    <2>4. Stream[j].unit = Stream[k].unit
      BY <1>0, <1>9, <1>u DEF d
    <2> QED
      BY <2>3, <2>4
  <1>10. CASE e > 0
    <2>1. e \in 1 .. TimeSpace - 1
      BY <1>1, <1>2, <1>3, <1>10
    <2>2. ((a % TimeSpace) - (b % TimeSpace)) % TimeSpace = TimeSpace - e
      <3>1. a \in Nat /\ b \in Nat /\ b = a + e /\ TimeSpace \in Nat \ {0}
        BY <1>1, <1>2
      <3> QED
        BY <2>1, <3>1, Behindhand, Zenon
    <2>3. TimeSpace - e \notin 1 .. half - 1 /\ TimeSpace - e # 0
      BY <1>1, <1>2, <1>3, <2>1
    <2>4. ~After(Packets[k].ts, Packets[j].ts)
      BY <1>6, <2>2, <2>3
    <2>5. a % TimeSpace # b % TimeSpace
      BY <1>7, <2>2, <2>3
    <2> QED
      BY <1>4, <2>4, <2>5
  <1> QED
    BY <1>5, <1>8, <1>9, <1>10

Gathered(set, u) ==
  /\ IsFiniteSet(set) /\ set \subseteq Sent
  /\ \A p \in set : p.unit = u

\* The packets behind a marker, in the order they were sent.
Behind(M, n) == [i \in 1 .. n |-> Packets[M - n + i]]

\* What orderedPackets finds is the end of one picture.
LEMMA RunOf ==
  ASSUME NEW u, NEW set, Gathered(set, u), \E q \in set : q.marker,
         Ordered(set) # <<>>
  PROVE  \E M \in Places, n \in Nat \ {0} :
           /\ n <= M /\ Ends(M) /\ Stream[M].unit = u
           /\ \A i \in 1 .. n : Stream[M - n + i].unit = u
           /\ Ordered(set) = Behind(M, n)
  <1> DEFINE m == CHOOSE p \in set : p.marker
             back(p) == (m.seq - p.seq) % SeqSpace
             near == {p \in set : back(p) < MaxPackets}
             c == Cardinality(near)
             run == [i \in 1 .. c |-> CHOOSE p \in near : back(p) = c - i]
  <1>1. m \in set /\ m.marker
    OBVIOUS
  <1>2. PICK M \in Places : m = Packets[M]
    BY <1>1 DEF Gathered, Sent
  <1> HIDE DEF m, run
  <1>3. Ends(M) /\ Stream[M].unit = u /\ M \in Nat
    <2>1. Packets[M].unit = u /\ Packets[M].marker
      BY <1>1, <1>2 DEF Gathered
    <2>2. Packets[M].unit = Stream[M].unit /\ Packets[M].marker = Ends(M)
      BY Fields
    <2>3. M \in Nat
      BY StreamFacts
    <2> QED
      BY <2>1, <2>2, <2>3
  <1>4. {back(p) : p \in near} = 0 .. c - 1 /\ Ordered(set) = run
    BY DEF Ordered, m, run
  <1>5. ASSUME NEW p \in set
        PROVE  \E k \in Places : /\ p = Packets[k] /\ k <= M /\ back(p) = M - k
                                 /\ Stream[k].unit = u
    <2>1. PICK k \in Places : p = Packets[k]
      BY DEF Gathered, Sent
    <2>2. Stream[k].unit = u /\ k \in Nat
      <3>1. Packets[k].unit = u
        BY <1>5, <2>1 DEF Gathered
      <3>2. Packets[k].unit = Stream[k].unit
        BY Fields
      <3>3. k \in Nat
        BY StreamFacts
      <3> QED
        BY <3>1, <3>2, <3>3
    <2>3. k <= M
      <3>1. CASE M = Len(Stream)
        BY <3>1, StreamFacts
      <3>2. CASE M # Len(Stream)
        <4>1. M + 1 \in Places /\ Stream[M + 1].unit # u
          BY <1>3, <3>2, StreamFacts DEF Ends
        <4>2. Stream[M].unit <= Stream[M + 1].unit
          BY <1>3, <4>1, InTurn
        <4>3. k >= M + 1 => Stream[M + 1].unit <= Stream[k].unit
          BY <4>1, InTurn
        <4> QED
          BY <1>3, <2>2, <4>1, <4>2, <4>3, StreamFacts
      <3> QED
        BY <3>1, <3>2
    <2>4. back(p) = M - k
      BY <1>2, <2>1, <2>3, Distance
    <2> QED
      BY <2>1, <2>2, <2>3, <2>4
  <1>6. c \in Nat
    BY FS_Subset, FS_CardinalityType DEF Gathered
  <1>7. m \in near
    <2>1. M <= M /\ M - M = 0 /\ 0 < MaxPackets
      BY <1>3, StreamFacts
    <2>2. (Packets[M].seq - Packets[M].seq) % SeqSpace = M - M
      BY <2>1, Distance
    <2>3. back(m) < MaxPackets
      BY <1>2, <2>1, <2>2
    <2> QED
      BY <1>1, <2>3
  <1>8. c # 0
    <2>1. back(m) \in 0 .. c - 1
      BY <1>4, <1>7
    <2> HIDE DEF c
    <2> QED
      BY <1>6, <2>1
  <1>9. ASSUME NEW i \in 1 .. c
        PROVE  /\ M - c + i \in Places /\ run[i] = Packets[M - c + i]
               /\ Stream[M - c + i].unit = u
    <2>1. c - i \in 0 .. c - 1
      BY <1>6
    <2>2. \E p \in near : back(p) = c - i
      BY <1>4, <2>1
    <2> DEFINE r == CHOOSE p \in near : back(p) = c - i
    <2>3. r \in near /\ back(r) = c - i
      BY <2>2
    <2>4. run[i] = r
      BY DEF run
    <2> HIDE DEF r, run
    <2>5. PICK k \in Places : /\ r = Packets[k] /\ k <= M /\ back(r) = M - k
                              /\ Stream[k].unit = u
      BY <1>5, <2>3
    <2>6. k = M - c + i
      BY <1>3, <1>6, <2>3, <2>5, StreamFacts
    <2> QED
      BY <2>4, <2>5, <2>6
  <1>10. c <= M
    <2> HIDE DEF c
    <2>1. 1 \in 1 .. c
      BY <1>6, <1>8
    <2>2. M - c + 1 \in Places
      BY <1>9, <2>1
    <2> QED
      BY <1>3, <1>6, <2>2, StreamFacts
  <1>11. run = Behind(M, c)
    <2>1. run = [i \in 1 .. c |-> run[i]]
      BY DEF run
    <2> HIDE DEF c
    <2> QED
      BY <1>9, <2>1, Zenon DEF Behind
  <1> QED
    BY <1>3, <1>4, <1>6, <1>8, <1>9, <1>10, <1>11

\* A run that begins behind the end of a picture is the next picture, whole.
LEMMA WholeRun ==
  ASSUME NEW M \in Places, NEW n \in Nat \ {0}, n <= M, Ends(M),
         \A i \in 1 .. n : Stream[M - n + i].unit = Stream[M].unit,
         M - n \in Places, Ends(M - n)
  PROVE  /\ Stream[M].unit = Stream[M - n].unit + 1
         /\ n = Cardinality(Of(Stream[M].unit))
         /\ \E i \in 1 .. n : Stream[M - n + i].kind \in Coded
  <1> DEFINE L == M - n
             u == Stream[M].unit
  <1>1. /\ L \in Nat /\ M \in Nat /\ L < M /\ L + 1 \in Places
        /\ Places = 1 .. Len(Stream)
    BY StreamFacts
  <1>2. Stream[L + 1].unit = u
    BY <1>1
  <1>3. Stream[L + 1].unit # Stream[L].unit
    BY <1>1 DEF Ends, Places
  <1>4. /\ Stream[L].unit <= u /\ u <= Stream[L].unit + 1
        /\ u \in Nat /\ Stream[L].unit \in Nat
    <2>1. Stream[L].unit <= Stream[L + 1].unit
      <3>1. \A j, k \in Places : j <= k => Stream[j].unit <= Stream[k].unit
        BY InTurn
      <3>2. L <= L + 1
        BY <1>1
      <3> QED
        BY <1>1, <3>1, <3>2, Zenon
    <2>2. Stream[L + 1].unit <= Stream[L].unit + 1
      <3>1. \A j, k \in Places : k = j + 1 => Stream[k].unit <= Stream[j].unit + 1
        BY InTurn
      <3> QED
        BY <1>1, <3>1, Zenon
    <2> QED
      BY <1>2, <2>1, <2>2, StreamFacts
  <1>5. u = Stream[L].unit + 1
    BY <1>2, <1>3, <1>4
  <1>6. ASSUME NEW k \in Places
        PROVE  Stream[k].unit = u <=> k \in L + 1 .. M
    <2>1. CASE k <= L
      <3>1. Stream[k].unit <= Stream[L].unit
        BY <2>1, InTurn
      <3> QED
        BY <1>1, <1>4, <1>5, <2>1, <3>1, StreamFacts
    <2>2. CASE k \in L + 1 .. M
      <3>1. k - L \in 1 .. n /\ M - n + (k - L) = k
        BY <1>1, <2>2
      <3>2. Stream[M - n + (k - L)].unit = u
        BY <3>1
      <3> QED
        BY <2>2, <3>1, <3>2
    <2>3. CASE k > M
      <3>1. M + 1 \in Places /\ k >= M + 1 /\ M # Len(Stream)
        BY <1>1, <2>3
      <3>2. Stream[M + 1].unit # u /\ u <= Stream[M + 1].unit
        BY <1>1, <3>1, InTurn DEF Ends
      <3>3. Stream[M + 1].unit <= Stream[k].unit
        BY <3>1, InTurn
      <3> QED
        BY <1>1, <1>4, <2>3, <3>1, <3>2, <3>3, StreamFacts, SMTT(30)
    <2> QED
      BY <1>1, <2>1, <2>2, <2>3
  <1>7. Of(u) = L + 1 .. M
    <2>1. L + 1 .. M \subseteq Places
      BY <1>1
    <2> QED
      BY <1>6, <2>1 DEF Of, Places
  <1>8. Cardinality(L + 1 .. M) = M - (L + 1) + 1
    BY <1>1, FS_Interval
  <1>9. n = Cardinality(Of(u))
    BY <1>1, <1>7, <1>8
  <1>10. PICK k \in Places : Stream[k].unit = u /\ Stream[k].kind \in Coded
    BY InTurn
  <1>11. k \in L + 1 .. M
    BY <1>6, <1>10
  <1>12. k - L \in 1 .. n /\ M - n + (k - L) = k
    BY <1>1, <1>11
  <1> QED
    BY <1>5, <1>9, <1>10, <1>12

Receivers ==
  [open: BOOLEAN, ts: Nat, packets: SUBSET Sent, params: BOOLEAN,
   have: BOOLEAN, lastSeq: Nat, lastTs: Nat, gap: BOOLEAN]

\* The last unit ended with the L-th packet.
LastAt(d, L) ==
  Ends(L) /\ d.lastSeq = Packets[L].seq /\ d.lastTs = Packets[L].ts

ReceiverInv(d) ==
  /\ d \in Receivers /\ IsFiniteSet(d.packets) /\ Cardinality(d.packets) <= MaxPackets
  /\ d.open = (d.packets # {})
  /\ \A p \in d.packets : p.ts = d.ts
  /\ d.have => \E L \in Places : LastAt(d, L)

\* What a packet that completes no unit leaves of the receiver.
Kept(d, e) ==
  /\ e.have = d.have /\ e.lastSeq = d.lastSeq /\ e.lastTs = d.lastTs
  /\ d.params => e.params

\* The unit u of the n packets up to the M-th.
Emitted(d, e, u, M, n) ==
  /\ n <= M /\ Ends(M)
  /\ \A i \in 1 .. n : Stream[M - n + i].unit = Stream[M].unit
  /\ u.unit = Stream[M].unit /\ u.size = n /\ u.key \in BOOLEAN
  /\ e.have /\ LastAt(e, M)
  /\ d.have => After(Packets[M].ts, d.lastTs)
  /\ ~u.discontinuity /\ d.have =>
       Packets[M - n + 1].seq = (d.lastSeq + 1) % SeqSpace
  /\ d.params => e.params
  /\ u.decodable => e.params
  /\ e.params /\ (\E i \in 1 .. n : Stream[M - n + i].kind \in Coded) => u.decodable

LEMMA Opening ==
  ASSUME NEW k \in Places, NEW d, ReceiverInv(d), NEW o, o = Opened(d, Packets[k])
  PROVE  /\ o \in Receivers /\ IsFiniteSet(o.packets) /\ o.open
         /\ Cardinality(o.packets) <= MaxPackets
         /\ o.ts = Packets[k].ts /\ \A q \in o.packets : q.ts = o.ts
         /\ o.have = d.have /\ o.lastSeq = d.lastSeq /\ o.lastTs = d.lastTs
         /\ o.params = d.params
  <1> DEFINE p == Packets[k]
  <1>1. p.ts \in Nat
    BY Fields
  <1>2. CASE d.open /\ d.ts = p.ts
    BY <1>2 DEF Opened, ReceiverInv
  <1>3. CASE ~(d.open /\ d.ts = p.ts)
    <2>1. o = [d EXCEPT !.open = TRUE, !.ts = p.ts, !.packets = {},
                        !.gap = @ \/ d.open]
      BY <1>3 DEF Opened
    <2>2. d \in Receivers
      BY DEF ReceiverInv
    <2> HIDE DEF p
    <2>3. o \in Receivers /\ o.packets = {} /\ o.open /\ o.ts = p.ts
      BY <1>1, <2>1, <2>2 DEF Receivers
    <2>4. /\ o.have = d.have /\ o.lastSeq = d.lastSeq /\ o.lastTs = d.lastTs
          /\ o.params = d.params
      BY <2>1, <2>2 DEF Receivers
    <2>5. IsFiniteSet({}) /\ Cardinality({}) = 0 /\ MaxPackets \in Nat
      BY FS_EmptySet, StreamFacts
    <2> QED
      BY <2>3, <2>4, <2>5 DEF p
  <1> QED
    BY <1>2, <1>3

\* With the packet added, the receiver holds packets of its picture only.
LEMMA Holding ==
  ASSUME NEW k \in Places, NEW d, ReceiverInv(d), NEW o, o = Opened(d, Packets[k]),
         ~(Cardinality(o.packets) >= MaxPackets),
         NEW e, e = [o EXCEPT !.packets = @ \cup {Packets[k]}]
  PROVE  /\ ReceiverInv(e) /\ Kept(d, e) /\ e.params = d.params
         /\ e.ts = Packets[k].ts
         /\ Gathered(e.packets, Stream[k].unit)
  <1> DEFINE p == Packets[k]
  <1>0. p \in Sent /\ p = Packets[k]
    BY Fields
  <1>1. /\ o \in Receivers /\ IsFiniteSet(o.packets) /\ o.open
        /\ o.ts = p.ts /\ \A q \in o.packets : q.ts = o.ts
        /\ o.have = d.have /\ o.lastSeq = d.lastSeq /\ o.lastTs = d.lastTs
        /\ o.params = d.params
    BY Opening
  <1> HIDE DEF p
  <1>2. e = [o EXCEPT !.packets = @ \cup {p}]
    BY <1>0
  <1>3. /\ e \in Receivers /\ e.packets = o.packets \cup {p} /\ e.open = TRUE
        /\ e.ts = p.ts /\ e.have = d.have /\ e.lastSeq = d.lastSeq
        /\ e.lastTs = d.lastTs /\ e.params = d.params
    BY <1>0, <1>1, <1>2 DEF Receivers
  <1>4. IsFiniteSet(e.packets) /\ Cardinality(e.packets) <= MaxPackets
    <2>1. /\ IsFiniteSet(o.packets \cup {p}) /\ Cardinality(o.packets) \in Nat
          /\ \/ Cardinality(o.packets \cup {p}) = Cardinality(o.packets)
             \/ Cardinality(o.packets \cup {p}) = Cardinality(o.packets) + 1
      BY <1>1, FS_AddElement, FS_CardinalityType
    <2>2. Cardinality(o.packets) < MaxPackets
      BY <2>1, StreamFacts
    <2>3. Cardinality(o.packets \cup {p}) <= MaxPackets
      BY <2>1, <2>2, StreamFacts
    <2> QED
      BY <1>3, <2>1, <2>3
  <1>5. \A q \in e.packets : q.ts = e.ts
    BY <1>1, <1>3
  <1>6. e.have => \E L \in Places : LastAt(e, L)
    BY <1>3 DEF ReceiverInv, LastAt
  <1>7. ASSUME NEW q \in e.packets
        PROVE  q.unit = Stream[k].unit
    <2>1. q \in Sent
      BY <1>3 DEF Receivers
    <2>2. PICK j \in Places : q = Packets[j]
      BY <2>1 DEF Sent
    <2>3. Packets[j].ts = Packets[k].ts
      BY <1>0, <1>3, <1>5, <2>2
    <2>4. Stream[j].unit = Stream[k].unit
      BY <2>3, LaterPicture
    <2>5. Packets[j].unit = Stream[j].unit
      BY Fields
    <2> QED
      BY <2>2, <2>4, <2>5
  <1>8. e.packets # {} /\ e.packets \subseteq Sent
    BY <1>3 DEF Receivers
  <1> QED
    BY <1>0, <1>3, <1>4, <1>5, <1>6, <1>7, <1>8 DEF ReceiverInv, Kept, Gathered

\* A receiver that gives its packets up.
LEMMA Giving ==
  ASSUME NEW e \in Receivers, e.have => \E L \in Places : LastAt(e, L),
         NEW params \in BOOLEAN, e.params => params,
         NEW f, f = [Dropped(e) EXCEPT !.params = params]
  PROVE  ReceiverInv(f) /\ Kept(e, f)
  <1>1. /\ f \in Receivers /\ f.packets = {} /\ f.open = FALSE /\ f.have = e.have
        /\ f.lastSeq = e.lastSeq /\ f.lastTs = e.lastTs /\ f.params = params
    BY DEF Dropped, Receivers
  <1>2. IsFiniteSet({}) /\ Cardinality({}) = 0 /\ MaxPackets \in Nat
    BY FS_EmptySet, StreamFacts
  <1>3. f.have => \E L \in Places : LastAt(f, L)
    BY <1>1 DEF LastAt
  <1>4. IsFiniteSet(f.packets) /\ Cardinality(f.packets) <= MaxPackets
    <2>1. 0 <= MaxPackets
      BY <1>2
    <2> QED
      BY <1>1, <1>2, <2>1, Zenon
  <1>5. f.open = (f.packets # {})
    BY <1>1
  <1>6. \A q \in f.packets : q.ts = f.ts
    BY <1>1
  <1>7. ReceiverInv(f)
    BY <1>1, <1>3, <1>4, <1>5, <1>6, Zenon DEF ReceiverInv
  <1> QED
    BY <1>1, <1>7 DEF Kept

\* What assemble makes of the run up to the M-th packet.
LEMMA Assembled ==
  ASSUME NEW e \in Receivers, NEW M \in Places, NEW n \in Nat \ {0}, n <= M,
         \A i \in 1 .. n : Stream[M - n + i].unit = Stream[M].unit,
         NEW a, a = Assemble(e, Behind(M, n))
  PROVE  /\ a.params \in BOOLEAN /\ (e.params => a.params)
         /\ a.unit.unit = Stream[M].unit /\ a.unit.size = n
         /\ a.unit.key \in BOOLEAN /\ a.unit.last = Packets[M].seq
         /\ ~a.unit.discontinuity /\ e.have =>
              Packets[M - n + 1].seq = (e.lastSeq + 1) % SeqSpace
         /\ a.unit.decodable => a.params
         /\ a.params /\ (\E i \in 1 .. n : Stream[M - n + i].kind \in Coded) =>
              a.unit.decodable
  <1> DEFINE run == Behind(M, n)
             ok == Broken(run) = {}
             read == IF ok THEN Len(run) ELSE Min(Broken(run)) - 1
             Has(kinds) == \E i \in 1 .. Len(run) : run[i].kind \in kinds
             params == e.params \/ \E i \in 1 .. read : run[i].kind = "params"
             key == Has({"idr", "idr_end"})
  <1>1. a = [ok |-> ok, params |-> params,
             unit |-> [unit |-> run[1].unit, first |-> run[1].seq,
                       last |-> run[Len(run)].seq, size |-> Len(run), key |-> key,
                       decodable |-> params /\ (key \/ Has({"slice", "slice_end"})),
                       discontinuity |->
                         \/ e.gap
                         \/ e.have /\ run[1].seq # (e.lastSeq + 1) % SeqSpace]]
    BY Zenon DEF Assemble
  <1>2. Len(run) = n
    BY DEF Behind
  <1>3. \A i \in 1 .. n : run[i] = Packets[M - n + i]
    BY DEF Behind
  <1>4. ASSUME NEW i \in 1 .. n
        PROVE  M - n + i \in Places /\ run[i].kind = Stream[M - n + i].kind
    <2>1. M - n + i \in Places
      BY StreamFacts
    <2> QED
      BY <1>3, <2>1, Fields
  <1>5. run[1] = Packets[M - n + 1] /\ run[n] = Packets[M] /\ 1 \in 1 .. n
    <2>1. 1 \in 1 .. n /\ n \in 1 .. n /\ M - n + n = M
      BY StreamFacts
    <2> QED
      BY <1>3, <2>1
  <1>6. Packets[M - n + 1].unit = Stream[M].unit
    <2>1. M - n + 1 \in Places
      BY <1>4, <1>5
    <2> QED
      BY <1>5, <2>1, Fields
  <1> HIDE DEF run
  <1>7. params \in BOOLEAN /\ key \in BOOLEAN /\ e.params \in BOOLEAN
    BY DEF Receivers
  <1>8. (\E i \in 1 .. n : Stream[M - n + i].kind \in Coded) =>
          key \/ Has({"slice", "slice_end"})
    BY <1>2, <1>4 DEF Coded
  <1> HIDE DEF ok, key, params, Has, read
  <1> QED
    BY <1>1, <1>2, <1>5, <1>6, <1>7, <1>8 DEF params

\* What Push makes of the receiver.
LEMMA Pushed ==
  ASSUME NEW k \in Places, NEW d, ReceiverInv(d), NEW r, r = Push(d, Packets[k])
  PROVE  /\ ReceiverInv(r.rx)
         /\ \/ r.out \in {"nothing", "error"} /\ Kept(d, r.rx)
            \/ /\ r.out = "unit"
               /\ \E M \in Places, n \in Nat \ {0} : Emitted(d, r.rx, r.unit, M, n)
  <1> DEFINE p == Packets[k]
             o == Opened(d, p)
             other == d.open /\ d.ts # p.ts
             more == [o EXCEPT !.packets = @ \cup {p}]
             marked == \E q \in more.packets : q.marker
             run == Ordered(more.packets)
             a == Assemble(more, run)
             whole == [more EXCEPT !.open = FALSE, !.packets = {}, !.gap = FALSE,
                         !.params = a.params, !.have = TRUE,
                         !.lastSeq = a.unit.last, !.lastTs = more.ts]
  <1>0. Nothing(d).rx = d /\ Nothing(d).out = "nothing"
    BY DEF Nothing
  <1>1. CASE Ignored(d, p)
    <2>1. r = Nothing(d)
      BY <1>1 DEF Push
    <2> QED
      BY <1>0, <2>1 DEF Kept
  <1>2. CASE ~Ignored(d, p) /\ Cardinality(o.packets) >= MaxPackets
    <2>1. r = Failed(Dropped(o))
      BY <1>2 DEF Push
    <2>2. /\ o \in Receivers /\ o.have = d.have /\ o.lastSeq = d.lastSeq
          /\ o.lastTs = d.lastTs /\ o.params = d.params
      BY Opening
    <2> HIDE DEF o
    <2>3. Dropped(o) = [Dropped(o) EXCEPT !.params = o.params]
      BY <2>2 DEF Dropped, Receivers
    <2>4. (o.have => \E L \in Places : LastAt(o, L)) /\ o.params \in BOOLEAN
      BY <2>2 DEF ReceiverInv, LastAt, Receivers
    <2>5. ReceiverInv(Dropped(o)) /\ Kept(o, Dropped(o))
      BY <2>2, <2>3, <2>4, Giving
    <2>6. r.rx = Dropped(o) /\ r.out = "error"
      BY <2>1 DEF Failed
    <2> QED
      BY <2>2, <2>5, <2>6 DEF Kept
  <1>3. CASE ~Ignored(d, p) /\ ~(Cardinality(o.packets) >= MaxPackets)
    <2>1. /\ ReceiverInv(more) /\ Kept(d, more) /\ more.params = d.params
          /\ more.ts = p.ts /\ Gathered(more.packets, Stream[k].unit)
      BY <1>3, Holding
    <2>2. more \in Receivers /\ (more.have => \E L \in Places : LastAt(more, L))
      BY <2>1 DEF ReceiverInv
    <2>3. d.have => After(p.ts, d.lastTs)
      BY <1>3 DEF Ignored
    <2>4. r = IF ~marked THEN IF other THEN Failed(more) ELSE Nothing(more)
              ELSE IF run = <<>> THEN Nothing(more)
              ELSE IF ~a.ok THEN Failed([Dropped(more) EXCEPT !.params = a.params])
              ELSE [out |-> "unit", unit |-> a.unit, rx |-> whole]
      BY <1>3, Zenon DEF Push
    <2>5. more.have = d.have /\ more.lastSeq = d.lastSeq
      BY <2>1 DEF Kept
    <2> HIDE DEF more
    <2>6. CASE r = Failed(more) \/ r = Nothing(more)
      BY <2>1, <2>6 DEF Failed, Nothing
    <2>7. CASE marked /\ run # <<>>
      <3>1. PICK M \in Places, n \in Nat \ {0} :
              /\ n <= M /\ Ends(M) /\ Stream[M].unit = Stream[k].unit
              /\ \A i \in 1 .. n : Stream[M - n + i].unit = Stream[k].unit
              /\ run = Behind(M, n)
        BY <2>1, <2>7, RunOf
      <3>2. \A i \in 1 .. n : Stream[M - n + i].unit = Stream[M].unit
        BY <3>1
      <3>3. a = Assemble(more, Behind(M, n))
        BY <3>1
      <3> HIDE DEF a
      <3>4. /\ a.params \in BOOLEAN /\ (more.params => a.params)
            /\ a.unit.unit = Stream[M].unit /\ a.unit.size = n
            /\ a.unit.key \in BOOLEAN /\ a.unit.last = Packets[M].seq
            /\ ~a.unit.discontinuity /\ more.have =>
                 Packets[M - n + 1].seq = (more.lastSeq + 1) % SeqSpace
            /\ a.unit.decodable => a.params
            /\ a.params /\ (\E i \in 1 .. n : Stream[M - n + i].kind \in Coded) =>
                 a.unit.decodable
        BY <2>2, <3>1, <3>2, <3>3, Assembled
      <3>5. CASE ~a.ok
        <4> DEFINE f == [Dropped(more) EXCEPT !.params = a.params]
        <4>1. r = Failed(f)
          BY <2>4, <2>7, <3>5
        <4> HIDE DEF f
        <4>0. f = [Dropped(more) EXCEPT !.params = a.params]
          BY DEF f
        <4>2. ReceiverInv(f) /\ Kept(more, f)
          <5>1. a.params \in BOOLEAN /\ (more.params => a.params)
            BY <3>4
          <5> QED
            BY <2>2, <4>0, <5>1, Giving
        <4>3. r.rx = f /\ r.out = "error"
          BY <4>1 DEF Failed
        <4> QED
          BY <2>1, <4>2, <4>3 DEF Kept
      <3>6. CASE a.ok
        <4>1. r.out = "unit" /\ r.unit = a.unit /\ r.rx = whole
          BY <2>4, <2>7, <3>6
        <4>2. Packets[M].seq \in Nat /\ Packets[M].ts = p.ts
          BY <3>1, Fields
        <4>3. /\ whole \in Receivers /\ whole.packets = {} /\ whole.open = FALSE
              /\ whole.have = TRUE /\ whole.lastSeq = Packets[M].seq
              /\ whole.lastTs = Packets[M].ts /\ whole.params = a.params
          <5>1. a.unit.last = Packets[M].seq /\ a.params \in BOOLEAN
            BY <3>4
          <5>2. a.unit.last \in Nat /\ more.ts = Packets[M].ts /\ more.ts \in Nat
            BY <2>1, <2>2, <4>2, <5>1 DEF Receivers
          <5> QED
            BY <2>2, <5>1, <5>2 DEF Receivers
        <4> HIDE DEF whole
        <4>4. LastAt(whole, M)
          BY <3>1, <4>3 DEF LastAt
        <4>5. IsFiniteSet({}) /\ Cardinality({}) = 0 /\ MaxPackets \in Nat
          BY FS_EmptySet, StreamFacts
        <4>6. ReceiverInv(whole)
          <5>1. 0 <= MaxPackets
            BY <4>5
          <5>2. IsFiniteSet(whole.packets) /\ Cardinality(whole.packets) <= MaxPackets
            BY <4>3, <4>5, <5>1, Zenon
          <5>3. whole.open = (whole.packets # {})
            BY <4>3
          <5>4. \A q \in whole.packets : q.ts = whole.ts
            BY <4>3
          <5>5. \E L \in Places : LastAt(whole, L)
            BY <4>4
          <5> QED
            BY <4>3, <5>2, <5>3, <5>4, <5>5, Zenon DEF ReceiverInv
        <4>7. Emitted(d, whole, a.unit, M, n)
          <5>1. d.have => After(Packets[M].ts, d.lastTs)
            BY <2>3, <4>2
          <5>2. ~a.unit.discontinuity /\ d.have =>
                  Packets[M - n + 1].seq = (d.lastSeq + 1) % SeqSpace
            BY <2>5, <3>4
          <5>3. (d.params => whole.params) /\ (a.unit.decodable => whole.params)
            BY <2>1, <3>4, <4>3
          <5>4. whole.params /\ (\E i \in 1 .. n : Stream[M - n + i].kind \in Coded)
                  => a.unit.decodable
            BY <3>4, <4>3
          <5>5. /\ a.unit.unit = Stream[M].unit /\ a.unit.size = n
                /\ a.unit.key \in BOOLEAN
            BY <3>4
          <5> QED
            BY <3>1, <3>2, <4>3, <4>4, <5>1, <5>2, <5>3, <5>4, <5>5 DEF Emitted
        <4> QED
          BY <4>1, <4>6, <4>7
      <3> QED
        BY <3>5, <3>6
    <2>8. ~(marked /\ run # <<>>) => r = Failed(more) \/ r = Nothing(more)
      BY <2>4
    <2> QED
      BY <2>6, <2>7, <2>8
  <1> QED
    BY <1>1, <1>2, <1>3

AcceptedUnits == [unit: Nat, size: Nat, key: BOOLEAN, chain: Nat]

\* While the chain holds, the last unit the receiver gave is the last one accepted.
ChainInv ==
  /\ ReceiverInv(rx) /\ chain \in Nat \ {0} /\ synced \in BOOLEAN
  /\ accepted \in Seq(AcceptedUnits)
  /\ ~rx.have => accepted = <<>> /\ ~synced
  /\ rx.have =>
       \E L \in Places :
         /\ LastAt(rx, L)
         /\ \A i \in 1 .. Len(accepted) : accepted[i].unit <= Stream[L].unit
         /\ synced =>
              /\ rx.params /\ accepted # <<>>
              /\ accepted[Len(accepted)].unit = Stream[L].unit
              /\ accepted[Len(accepted)].chain = chain
  /\ PredictedFromWhole /\ InOrderOnce

\* A unit that is given is of a later picture than all accepted ones; and of the
\* next, whole and decodable, when it continues the chain.
LEMMA Continued ==
  ASSUME ChainInv, NEW e, NEW u, NEW M \in Places, NEW n \in Nat \ {0},
         Emitted(rx, e, u, M, n)
  PROVE  /\ \A i \in 1 .. Len(accepted) : accepted[i].unit < Stream[M].unit
         /\ synced /\ ~u.discontinuity =>
              /\ u.decodable /\ n = Cardinality(Of(Stream[M].unit))
              /\ accepted # <<>>
              /\ Stream[M].unit = accepted[Len(accepted)].unit + 1
              /\ accepted[Len(accepted)].chain = chain
  <1>1. CASE ~rx.have
    <2>1. accepted = <<>> /\ ~synced
      BY <1>1, Zenon DEF ChainInv
    <2> QED
      BY <2>1
  <1>2. CASE rx.have
    <2>1. PICK L \in Places :
            /\ LastAt(rx, L)
            /\ \A i \in 1 .. Len(accepted) : accepted[i].unit <= Stream[L].unit
            /\ synced =>
                 /\ rx.params /\ accepted # <<>>
                 /\ accepted[Len(accepted)].unit = Stream[L].unit
                 /\ accepted[Len(accepted)].chain = chain
      BY <1>2, Zenon DEF ChainInv
    <2>2. After(Packets[M].ts, Packets[L].ts)
      BY <1>2, <2>1, Zenon DEF Emitted, LastAt
    <2>3. Stream[L].unit < Stream[M].unit
      BY <2>2, LaterPicture
    <2>4. ASSUME NEW i \in 1 .. Len(accepted)
          PROVE  accepted[i].unit < Stream[M].unit
      <3>1. accepted \in Seq(AcceptedUnits)
        BY DEF ChainInv
      <3>2. accepted[i].unit \in Nat
        <4>1. accepted[i] \in AcceptedUnits
          BY <3>1
        <4> QED
          BY <4>1 DEF AcceptedUnits
      <3>3. accepted[i].unit <= Stream[L].unit
        BY <2>1
      <3> QED
        BY <2>3, <3>2, <3>3, StreamFacts, SMTT(30)
    <2>5. ASSUME synced, ~u.discontinuity
          PROVE  /\ u.decodable /\ n = Cardinality(Of(Stream[M].unit))
                 /\ Stream[M].unit = Stream[L].unit + 1
      <3>1. Packets[M - n + 1].seq = (Packets[L].seq + 1) % SeqSpace
        <4>1. Packets[M - n + 1].seq = (rx.lastSeq + 1) % SeqSpace
          BY <1>2, <2>5, Zenon DEF Emitted
        <4>2. rx.lastSeq = Packets[L].seq
          BY <2>1 DEF LastAt
        <4> QED
          BY <4>1, <4>2
      <3>2. /\ n <= M /\ Ends(M)
            /\ \A i \in 1 .. n : Stream[M - n + i].unit = Stream[M].unit
        BY Zenon DEF Emitted
      <3>3. M - n + 1 \in Places
        BY <3>2, StreamFacts
      <3>4. M - n + 1 = L + 1
        BY <3>1, <3>3, OneAhead
      <3>5. L = M - n
        BY <3>4, StreamFacts
      <3>6. M - n \in Places /\ Ends(M - n)
        BY <2>1, <3>5 DEF LastAt
      <3>7. /\ Stream[M].unit = Stream[M - n].unit + 1
            /\ n = Cardinality(Of(Stream[M].unit))
            /\ \E i \in 1 .. n : Stream[M - n + i].kind \in Coded
        BY <3>2, <3>6, WholeRun
      <3>8. e.params
        BY <2>1, <2>5, Zenon DEF Emitted
      <3>9. u.decodable
        BY <3>7, <3>8, Zenon DEF Emitted
      <3> QED
        BY <3>5, <3>7, <3>9
    <2>6. synced => /\ accepted # <<>>
                    /\ accepted[Len(accepted)].unit = Stream[L].unit
                    /\ accepted[Len(accepted)].chain = chain
      BY <2>1
    <2> QED
      BY <2>4, <2>5, <2>6
  <1> QED
    BY <1>1, <1>2

\* What the pipeline makes of a packet.
LEMMA Received ==
  ASSUME ChainInv, NEW k \in Places, Receive(Packets[k])
  PROVE  ChainInv'
  <1> DEFINE r == Push(rx, Packets[k])
             u == r.unit
             flagged == r.out = "unit" /\ u.discontinuity
             breaks == r.out = "error" \/ flagged
             begins == r.out = "unit" /\ u.decodable /\ u.key
             takes == begins \/ (r.out = "unit" /\ u.decodable /\ synced /\ ~breaks)
             c == InChain(u, chain')
  <1>1. /\ rx' = r.rx
        /\ chain' = IF breaks THEN chain + 1 ELSE chain
        /\ synced' = (begins \/ (synced /\ ~breaks))
        /\ accepted' = IF takes THEN Append(accepted, c) ELSE accepted
    BY Zenon DEF Receive
  <1>2. ReceiverInv(rx)
    BY DEF ChainInv
  <1>3. /\ ReceiverInv(r.rx)
        /\ \/ r.out \in {"nothing", "error"} /\ Kept(rx, r.rx)
           \/ /\ r.out = "unit"
              /\ \E M \in Places, n \in Nat \ {0} : Emitted(rx, r.rx, u, M, n)
    BY <1>2, Pushed
  <1> HIDE DEF r
  <1>4. /\ chain \in Nat \ {0} /\ synced \in BOOLEAN
        /\ accepted \in Seq(AcceptedUnits) /\ Len(accepted) \in Nat
    BY DEF ChainInv
  <1>5. chain' \in Nat \ {0} /\ synced' \in BOOLEAN
    <2>1. chain + 1 \in Nat \ {0} /\ chain \in Nat \ {0}
      BY <1>4
    <2>2. (begins \/ (synced /\ ~breaks)) \in BOOLEAN
      OBVIOUS
    <2> HIDE DEF begins, breaks
    <2> QED
      BY <1>1, <2>1, <2>2
  <1>6. ReceiverInv(rx')
    BY <1>1, <1>3
  <1>7. CASE r.out \in {"nothing", "error"} /\ Kept(rx, r.rx)
    <2>1. ~begins /\ ~takes
      BY <1>7
    <2>2. breaks \/ chain' = chain
      BY <1>1, Zenon
    <2>3. accepted' = accepted /\ (synced' => synced /\ chain' = chain)
      <3> HIDE DEF begins, takes, breaks
      <3> QED
        BY <1>1, <2>1, <2>2, Zenon
    <2>4. /\ rx'.have = rx.have /\ rx'.lastSeq = rx.lastSeq /\ rx'.lastTs = rx.lastTs
          /\ rx.params => rx'.params
      BY <1>1, <1>7 DEF Kept
    <2>5. CASE ~rx.have
      <3>1. accepted = <<>> /\ ~synced
        BY <2>5, Zenon DEF ChainInv
      <3>2. accepted' = <<>> /\ ~synced' /\ ~rx'.have
        BY <2>3, <2>4, <2>5, <3>1
      <3> QED
        BY <1>4, <1>5, <1>6, <2>3, <3>2 DEF ChainInv, PredictedFromWhole, InOrderOnce
    <2>6. CASE rx.have
      <3>1. PICK L \in Places :
              /\ LastAt(rx, L)
              /\ \A i \in 1 .. Len(accepted) : accepted[i].unit <= Stream[L].unit
              /\ synced =>
                   /\ rx.params /\ accepted # <<>>
                   /\ accepted[Len(accepted)].unit = Stream[L].unit
                   /\ accepted[Len(accepted)].chain = chain
        BY <2>6, Zenon DEF ChainInv
      <3>2. LastAt(rx', L)
        BY <2>4, <3>1 DEF LastAt
      <3>3. \A i \in 1 .. Len(accepted') : accepted'[i].unit <= Stream[L].unit
        BY <2>3, <3>1
      <3>4. synced' => /\ rx'.params /\ accepted' # <<>>
                       /\ accepted'[Len(accepted')].unit = Stream[L].unit
                       /\ accepted'[Len(accepted')].chain = chain'
        BY <2>3, <2>4, <3>1
      <3>5. PredictedFromWhole' /\ InOrderOnce'
        <4>1. PredictedFromWhole /\ InOrderOnce
          BY DEF ChainInv
        <4> QED
          BY <2>3, <4>1 DEF PredictedFromWhole, InOrderOnce
      <3>6. rx'.have
        BY <2>4, <2>6
      <3> QED
        BY <1>4, <1>5, <1>6, <2>3, <3>2, <3>3, <3>4, <3>5, <3>6 DEF ChainInv
    <2> QED
      BY <2>5, <2>6
  <1>8. CASE r.out = "unit" /\
             \E M \in Places, n \in Nat \ {0} : Emitted(rx, r.rx, u, M, n)
    <2>1. PICK M \in Places, n \in Nat \ {0} : Emitted(rx, r.rx, u, M, n)
      BY <1>8
    <2>2. \A i \in 1 .. Len(accepted) : accepted[i].unit < Stream[M].unit
      BY <2>1, Continued
    <2>3. synced /\ ~u.discontinuity =>
              /\ u.decodable /\ n = Cardinality(Of(Stream[M].unit))
              /\ accepted # <<>>
              /\ Stream[M].unit = accepted[Len(accepted)].unit + 1
              /\ accepted[Len(accepted)].chain = chain
      BY <2>1, Continued
    <2>4. /\ u.unit = Stream[M].unit /\ u.size = n /\ u.key \in BOOLEAN
          /\ rx'.have /\ LastAt(rx', M) /\ (u.decodable => rx'.params)
      BY <1>1, <2>1 DEF Emitted
    <2>5. c \in AcceptedUnits /\ c.unit = Stream[M].unit /\ c.size = n
          /\ c.key = u.key /\ c.chain = chain'
      BY <1>5, <2>4, StreamFacts DEF InChain, AcceptedUnits
    <2>6. breaks = flagged /\ (flagged <=> u.discontinuity)
      BY <1>8
    <2>7. synced' => takes
      <3>1. synced /\ ~u.discontinuity => takes
        BY <1>8, <2>3
      <3>2. begins => takes
        OBVIOUS
      <3> HIDE DEF takes, begins
      <3> QED
        BY <1>1, <2>6, <3>1, <3>2
    <2>8. CASE ~takes
      <3>1. accepted' = accepted /\ ~synced'
        <4> HIDE DEF takes, begins, breaks
        <4> QED
          BY <1>1, <2>7, <2>8, Zenon
      <3>2. ASSUME NEW i \in 1 .. Len(accepted')
            PROVE  accepted'[i].unit <= Stream[M].unit
        <4>1. accepted[i] \in AcceptedUnits /\ accepted[i].unit < Stream[M].unit
          BY <1>4, <2>2, <3>1
        <4> QED
          BY <3>1, <4>1, StreamFacts DEF AcceptedUnits
      <3>3. PredictedFromWhole' /\ InOrderOnce'
        <4>1. PredictedFromWhole /\ InOrderOnce
          BY DEF ChainInv
        <4> QED
          BY <3>1, <4>1 DEF PredictedFromWhole, InOrderOnce
      <3>4. accepted' \in Seq(AcceptedUnits)
        BY <1>4, <3>1
      <3>5. rx'.have /\ LastAt(rx', M)
        BY <2>4
      <3> HIDE DEF c, takes, begins, breaks, flagged
      <3> QED
        BY <1>5, <1>6, <3>1, <3>2, <3>3, <3>4, <3>5 DEF ChainInv
    <2>9. CASE takes
      <3> DEFINE len == Len(accepted)
      <3>1. accepted' = Append(accepted, c)
        <4> HIDE DEF takes, c
        <4> QED
          BY <1>1, <2>9, Zenon
      <3>2. c.key \/ (synced /\ ~u.discontinuity /\ chain' = chain)
        <4>1. begins => c.key
          BY <2>5
        <4>2. begins \/ (synced /\ ~breaks)
          BY <2>9
        <4>3. ~breaks => chain' = chain
          BY <1>1, Zenon
        <4>4. ~breaks => ~u.discontinuity
          BY <2>6
        <4> HIDE DEF begins, breaks, c
        <4> QED
          BY <4>1, <4>2, <4>3, <4>4
      <3>3. rx'.params
        <4>1. u.decodable
          BY <2>9
        <4> QED
          BY <2>4, <4>1
      <3> HIDE DEF c, takes, begins, breaks, flagged
      <3>4. /\ accepted' \in Seq(AcceptedUnits) /\ Len(accepted') = len + 1
            /\ \A i \in 1 .. len : accepted'[i] = accepted[i]
            /\ accepted'[len + 1] = c
        BY <1>4, <2>5, <3>1, AppendProperties
      <3>5. /\ DOMAIN accepted = 1 .. len /\ DOMAIN accepted' = 1 .. len + 1
            /\ len \in Nat
        BY <1>4, <3>4
      <3> HIDE DEF len
      <3>6. ASSUME NEW i \in 1 .. len
            PROVE  /\ accepted'[i] \in AcceptedUnits
                   /\ accepted'[i].unit < Stream[M].unit
        <4>1. accepted[i] \in AcceptedUnits /\ accepted[i].unit < Stream[M].unit
          BY <1>4, <2>2, <3>5 DEF len
        <4> QED
          BY <3>4, <4>1
      <3>7. \A i \in 1 .. Len(accepted') : accepted'[i].unit <= Stream[M].unit
        <4> SUFFICES ASSUME NEW i \in 1 .. Len(accepted')
                     PROVE  accepted'[i].unit <= Stream[M].unit
          OBVIOUS
        <4>1. i \in 1 .. len \/ i = len + 1
          BY <3>4, <3>5
        <4>2. accepted'[len + 1].unit = Stream[M].unit /\ Stream[M].unit \in Nat
          BY <2>5, <3>4, StreamFacts
        <4>3. i \in 1 .. len => accepted'[i].unit <= Stream[M].unit
          BY <3>6, <4>2 DEF AcceptedUnits
        <4> QED
          BY <4>1, <4>2, <4>3
      <3>8. InOrderOnce'
        <4>1. InOrderOnce
          BY DEF ChainInv
        <4> SUFFICES ASSUME NEW i \in 1 .. len + 1, NEW j \in 1 .. len + 1, i < j
                     PROVE  accepted'[i].unit < accepted'[j].unit
          BY <3>5 DEF InOrderOnce
        <4>2. i \in 1 .. len
          BY <3>5
        <4>3. CASE j \in 1 .. len
          <5>1. accepted[i].unit < accepted[j].unit
            BY <3>5, <4>1, <4>2, <4>3 DEF InOrderOnce
          <5> QED
            BY <3>4, <4>2, <4>3, <5>1
        <4>4. CASE j = len + 1
          BY <2>5, <3>4, <3>6, <4>2, <4>4
        <4> QED
          BY <3>5, <4>3, <4>4
      <3>9. PredictedFromWhole'
        <4>1. PredictedFromWhole
          BY DEF ChainInv
        <4> SUFFICES ASSUME NEW i \in 1 .. len + 1, ~accepted'[i].key
                     PROVE  /\ Whole(accepted'[i])
                            /\ i > 1 /\ accepted'[i-1].chain = accepted'[i].chain
                            /\ accepted'[i].unit = accepted'[i-1].unit + 1
          BY <3>5, Zenon DEF PredictedFromWhole
        <4>2. CASE i \in 1 .. len
          <5>1. accepted'[i] = accepted[i]
            BY <3>4, <4>2
          <5>2. /\ Whole(accepted[i])
                /\ i > 1 /\ accepted[i-1].chain = accepted[i].chain
                /\ accepted[i].unit = accepted[i-1].unit + 1
            BY <3>5, <4>1, <4>2, <5>1, Zenon DEF PredictedFromWhole
          <5>3. i - 1 \in 1 .. len
            BY <3>5, <4>2, <5>2
          <5>4. accepted'[i-1] = accepted[i-1]
            BY <3>4, <5>3
          <5> QED
            BY <5>1, <5>2, <5>4
        <4>3. CASE i = len + 1
          <5>1. accepted'[i] = c
            BY <3>4, <4>3
          <5>2. synced /\ ~u.discontinuity /\ chain' = chain
            BY <3>2, <5>1
          <5>3. /\ n = Cardinality(Of(Stream[M].unit)) /\ accepted # <<>>
                /\ Stream[M].unit = accepted[len].unit + 1
                /\ accepted[len].chain = chain
            BY <2>3, <5>2 DEF len
          <5>4. Whole(c)
            BY <2>5, <5>3 DEF Whole
          <5>5. len \in 1 .. len
            BY <1>4, <3>5, <5>3 DEF len
          <5>6. i > 1 /\ i - 1 = len /\ accepted'[len] = accepted[len]
            BY <3>4, <3>5, <4>3, <5>5
          <5> QED
            BY <2>5, <5>1, <5>2, <5>3, <5>4, <5>6
        <4> QED
          BY <3>5, <4>2, <4>3
      <3>10. /\ accepted' # <<>>
             /\ accepted'[Len(accepted')].unit = Stream[M].unit
             /\ accepted'[Len(accepted')].chain = chain'
        BY <2>5, <3>4, <3>5
      <3>11. rx'.have /\ LastAt(rx', M)
        BY <2>4
      <3> QED
        BY <1>5, <1>6, <3>3, <3>4, <3>7, <3>8, <3>9, <3>10, <3>11 DEF ChainInv
    <2> QED
      BY <2>8, <2>9
  <1> QED
    BY <1>3, <1>7, <1>8

PacketsInv ==
  /\ ChainInv
  /\ sent \in 0 .. Len(Packets) /\ flight \subseteq 1 .. sent
  /\ copies \in 0 .. MaxCopies

LEMMA PacketsCounted ==
  Len(Packets) = Len(Stream) /\ DOMAIN Packets = Places /\ ToSet(Packets) = Sent
  <1>1. Packets \in Seq({Packets[k] : k \in Places})
    BY StreamFacts DEF Packets, Places
  <1>2. DOMAIN Packets = Places
    BY DEF Packets, Places
  <1> QED
    BY <1>1, <1>2, StreamFacts DEF ToSet, Sent

LEMMA PacketsStart ==
  ASSUME Init
  PROVE  PacketsInv
  <1>1. /\ sent = 0 /\ flight = {} /\ copies = 0 /\ chain = 1 /\ synced = FALSE
        /\ accepted = <<>> /\ rx = NewReceiver
    BY DEF Init
  <1>2. /\ rx \in Receivers /\ rx.packets = {} /\ rx.open = FALSE /\ rx.have = FALSE
    BY <1>1 DEF NewReceiver, Receivers
  <1>3. ReceiverInv(rx)
    <2>1. IsFiniteSet({}) /\ Cardinality({}) = 0 /\ 0 <= MaxPackets
      BY FS_EmptySet, StreamFacts
    <2>2. IsFiniteSet(rx.packets) /\ Cardinality(rx.packets) <= MaxPackets
      BY <1>2, <2>1, Zenon
    <2>3. rx.open = (rx.packets # {}) /\ \A p \in rx.packets : p.ts = rx.ts
      BY <1>2
    <2> QED
      BY <1>2, <2>2, <2>3 DEF ReceiverInv
  <1>4. PredictedFromWhole /\ InOrderOnce /\ accepted \in Seq(AcceptedUnits)
    BY <1>1 DEF PredictedFromWhole, InOrderOnce
  <1>5. ChainInv
    <2>1. /\ chain \in Nat \ {0} /\ synced \in BOOLEAN
          /\ accepted = <<>> /\ ~synced /\ ~rx.have
      <3>1. chain \in Nat \ {0} /\ accepted = <<>>
        BY <1>1
      <3>2. synced \in BOOLEAN /\ ~synced
        BY <1>1, Zenon
      <3>3. ~rx.have
        BY <1>2, Zenon
      <3> QED
        BY <3>1, <3>2, <3>3
    <2> QED
      BY <1>3, <1>4, <2>1, Zenon DEF ChainInv
  <1>6. Len(Packets) \in Nat /\ MaxCopies \in Nat
    BY PacketsCounted, StreamFacts
  <1> QED
    BY <1>1, <1>5, <1>6 DEF PacketsInv

LEMMA PacketsMove ==
  ASSUME PacketsInv, [Next]_vars
  PROVE  PacketsInv'
  <1>0. /\ Len(Packets) \in Nat /\ MaxCopies \in Nat
        /\ sent \in 0 .. Len(Packets) /\ flight \subseteq 1 .. sent
        /\ copies \in 0 .. MaxCopies /\ ChainInv
    BY PacketsCounted, StreamFacts DEF PacketsInv
  <1>1. UNCHANGED <<rx, chain, synced, accepted>> => ChainInv'
    BY <1>0 DEF ChainInv, LastAt, PredictedFromWhole, InOrderOnce
  <1>2. CASE Send
    BY <1>0, <1>1, <1>2 DEF Send, PacketsInv
  <1>3. ASSUME NEW k \in flight, Lose(k)
        PROVE  PacketsInv'
    BY <1>0, <1>1, <1>3 DEF Lose, PacketsInv
  <1>4. ASSUME NEW k \in flight, Deliver(k)
        PROVE  PacketsInv'
    <2>1. k \in Places
      BY <1>0, <1>4, PacketsCounted, StreamFacts
    <2>2. ChainInv'
      BY <1>0, <1>4, <2>1, Received DEF Deliver
    <2>3. sent' = sent /\ flight' \subseteq flight /\ copies' \in 0 .. MaxCopies
      BY <1>0, <1>4 DEF Deliver
    <2> QED
      BY <1>0, <2>2, <2>3 DEF PacketsInv
  <1>5. CASE UNCHANGED vars
    BY <1>0, <1>1, <1>5 DEF vars, PacketsInv
  <1> QED
    BY <1>2, <1>3, <1>4, <1>5 DEF Next

LEMMA PacketsSound ==
  ASSUME PacketsInv
  PROVE  UnitsInChain
  <1>1. /\ rx \in Receivers /\ Cardinality(rx.packets) <= MaxPackets
        /\ rx.open = (rx.packets # {}) /\ \A p \in rx.packets : p.ts = rx.ts
    BY Zenon DEF PacketsInv, ChainInv, ReceiverInv
  <1>2. rx.packets \subseteq Sent
    BY <1>1 DEF Receivers
  <1>3. ASSUME NEW p \in rx.packets, NEW q \in rx.packets
        PROVE  p.unit = q.unit /\ (p.seq = q.seq => p = q)
    <2>1. PICK j \in Places : p = Packets[j]
      BY <1>2 DEF Sent
    <2>2. PICK k \in Places : q = Packets[k]
      BY <1>2 DEF Sent
    <2>3. Packets[k].ts = Packets[j].ts
      BY <1>1, <2>1, <2>2
    <2>4. Stream[j].unit = Stream[k].unit
      BY <2>3, LaterPicture
    <2>5. Packets[j].unit = Packets[k].unit
      BY <2>4, Fields
    <2>6. Packets[j].seq = Packets[k].seq => j = k
      BY SamePlace
    <2> QED
      BY <2>1, <2>2, <2>5, <2>6
  <1>4. rx.packets \subseteq ToSet(Packets)
    BY <1>2, PacketsCounted
  <1>5. TypeOK
    BY <1>1, <1>3, <1>4 DEF TypeOK, PacketsInv, ChainInv
  <1> QED
    BY <1>5 DEF PacketsInv, ChainInv, UnitsInChain

\* The receiver by itself, for any pictures that follow each other, whatever is
\* other, repeated or reordered: what reaches the decoder without being an IDR is
\* whole and follows the unit it was predicted from, and no picture comes twice or
\* after a later one, as long as fewer packets are sent than there are numbers
\* (depacketizer.go, Pipeline.receive).
THEOREM PicturesFollow == Spec => [](PredictedFromWhole /\ InOrderOnce)
  <1>1. PacketsInv => PredictedFromWhole /\ InOrderOnce
    BY DEF PacketsInv, ChainInv
  <1> QED
    BY <1>1, PacketsStart, PacketsMove, PTL DEF Spec

\* In the composition packets arrive as they do alone.
LEMMA HasPackets == LinkSpec => Spec
  <1>1. LinkInit => Init
    BY DEF LinkInit
  <1>2. [LinkNext]_linkVars => [Next]_vars
    BY DEF LinkNext, linkVars
  <1> QED
    BY <1>1, <1>2, PTL DEF LinkSpec, Spec

\* Pictures in order and once, in the composition (depacketizer.go, pipeline.go).
THEOREM PicturesInChain == LinkSpec => []UnitsInChain
  <1>1. Spec => []PacketsInv
    BY PacketsStart, PacketsMove, PTL DEF Spec
  <1> QED
    BY <1>1, PacketsSound, HasPackets, PTL
==============================================================================
