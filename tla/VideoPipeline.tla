---------------------------- MODULE VideoPipeline ----------------------------
(***************************************************************************)
(* The live video pipeline (internal/video/pipeline.go and live.go) and    *)
(* the observations a session takes from it (internal/automation/video.go).*)
(*                                                                         *)
(* The stream's reader assembles access units and never waits; one worker  *)
(* decodes them in order; observers wait for a picture that is fresh and   *)
(* newer than the last input.  A loss, an overload or a decoder failure    *)
(* breaks the reference chain: what was queued, in flight or shown is void *)
(* until an IDR begins a new chain.  Reset moves to another generation and *)
(* Close joins the worker.                                                 *)
(*                                                                         *)
(* Assembly is RtpReceive's: a unit arrives here with its number, and the  *)
(* reader knows whether it directly follows the last one.  Time is kept as *)
(* ages that stop growing when nothing can tell them apart.                *)
(***************************************************************************)
EXTENDS Naturals, Sequences

CONSTANTS
  Observers,    \* calls that wait for a picture
  MaxPending,   \* units queued, 32 in the code
  Freshness,    \* oldest age of a picture that is returned
  PLIInterval,  \* least time between two keyframe requests
  MaxUnits,     \* bound on the stream
  MaxGen,       \* bound on generations
  MaxChain      \* bound on the chains a reset may leave behind

BoundsAssumption ==
  /\ MaxPending \in Nat \ {0} /\ Freshness \in Nat /\ PLIInterval \in Nat \ {0}
  /\ MaxUnits \in Nat /\ MaxGen \in Nat \ {0} /\ MaxChain \in Nat

VARIABLES
  units,     \* units the device has sent
  p,         \* the fields mu guards
  dec,       \* the decoder: what it has been fed since its last reset
  worker,    \* runLive
  life,      \* Reset and Close: who holds lifecycleMu, and where it is
  obs,       \* observers
  inputAge   \* time since the last input was complete

vars == <<units, p, dec, worker, life, obs, inputAge>>

Ages == 0 .. Freshness + 1
Older(age) == IF age > Freshness THEN age ELSE age + 1
Aged(x) == IF x.n = 0 THEN x ELSE [x EXCEPT !.age = Older(@)]
Unit == [n : 1 .. MaxUnits, key : BOOLEAN, chain : Nat, gen : 1 .. MaxGen,
         age : Ages]
NoUnit == [n |-> 0, key |-> FALSE, chain |-> 0, gen |-> 0, age |-> 0]
\* A decoded picture, and whether all it was predicted from was decoded.
NoPicture == [n |-> 0, gen |-> 0, chain |-> 0, age |-> 0, whole |-> TRUE]
NewDecoder == [last |-> 0, whole |-> FALSE, held |-> NoPicture, closed |-> FALSE]
NoObserver == [pc |-> "idle", gen |-> 0, bound |-> 0, picture |-> NoPicture]

Live == ~p.closed /\ ~p.ended

Init ==
  /\ units = 0
  /\ p = [gen |-> 1, chain |-> 1, synced |-> FALSE, gap |-> FALSE,
          pending |-> <<>>, latest |-> NoPicture, resetting |-> FALSE,
          closed |-> FALSE, ended |-> FALSE, decoding |-> FALSE,
          cancelled |-> FALSE, decoderChain |-> 1, wake |-> FALSE,
          sincePLI |-> PLIInterval, asked |-> FALSE]
  /\ dec = NewDecoder
  /\ worker = [pc |-> "top", unit |-> NoUnit, out |-> NoPicture, failed |-> FALSE,
               timer |-> FALSE]
  /\ life = [pc |-> "free", gen |-> 0]
  /\ obs = [o \in Observers |-> NoObserver]
  /\ inputAge = Freshness + 1

--------------------------------------------------------------------------
(* The reader *)

\* Mutant of BreakChain: the worker is not woken.
BreakChainQuietly(q) ==
  [q EXCEPT !.chain = @ + 1, !.synced = FALSE, !.pending = <<>>,
            !.latest = NoPicture, !.asked = FALSE]

\* breakChain: everything queued or shown is void; the worker is woken.
BreakChain(q) ==
  [q EXCEPT !.chain = @ + 1, !.synced = FALSE, !.pending = <<>>,
            !.latest = NoPicture, !.wake = TRUE, !.asked = FALSE]

\* Mutant of Queued: a full queue drops the unit and goes on.
QueuedOrDropped(q, u) ==
  IF Len(q.pending) >= MaxPending THEN q
  ELSE [q EXCEPT !.pending = Append(@, [u EXCEPT !.chain = q.chain]),
                 !.wake = TRUE]

\* A unit of the chain is queued; a full queue breaks the chain.
Queued(q, u) ==
  IF Len(q.pending) >= MaxPending THEN BreakChain(q)
  ELSE [q EXCEPT !.pending = Append(@, [u EXCEPT !.chain = q.chain]),
                 !.wake = TRUE]

\* A unit is complete (receive, live): one that does not follow the last breaks
\* the chain; an IDR replaces the queue, other units need a chain.
Arrive(key) ==
  LET u == [n |-> units', key |-> key, chain |-> 0, gen |-> p.gen, age |-> 0]
      q == [(IF p.gap THEN BreakChain(p) ELSE p) EXCEPT !.gap = FALSE]
      r == [q EXCEPT !.pending = <<>>, !.synced = TRUE, !.asked = FALSE]
  IN /\ units < MaxUnits /\ units' = units + 1
     /\ Live /\ ~p.resetting
     /\ p' = IF key THEN Queued(r, u)
             ELSE IF q.synced THEN Queued(q, u) ELSE q
     /\ UNCHANGED <<dec, worker, life, obs, inputAge>>

\* A unit is lost: the reader learns of it from an error at once, or from the
\* next unit that arrives.  A reader that is turned away loses units too.
Miss ==
  /\ units < MaxUnits /\ units' = units + 1
  /\ \/ Live /\ ~p.resetting /\ p' = [BreakChain(p) EXCEPT !.gap = TRUE]
     \/ p' = [p EXCEPT !.gap = TRUE]
  /\ UNCHANGED <<dec, worker, life, obs, inputAge>>

\* The stream ends: its context is cancelled.
EndStream ==
  /\ ~p.ended
  /\ p' = [p EXCEPT !.ended = TRUE, !.cancelled = p.decoding]
  /\ UNCHANGED <<units, dec, worker, life, obs, inputAge>>

--------------------------------------------------------------------------
(* The worker *)

Holding == {"decode", "fed"}  \* where it holds pushMu

\* The top of the loop: stop, take a unit, or look what recovery needs.
WorkerTop ==
  /\ worker.pc = "top"
  /\ IF ~Live
     THEN /\ worker' = [worker EXCEPT !.pc = "done"]
          /\ p' = [p EXCEPT !.pending = <<>>]
     ELSE IF ~p.resetting /\ p.pending # <<>>
     THEN /\ worker' = [worker EXCEPT !.pc = "taken", !.unit = Head(p.pending)]
          /\ p' = [p EXCEPT !.pending = Tail(@)]
     ELSE worker' = [worker EXCEPT !.pc = "empty"] /\ p' = p
  /\ UNCHANGED <<units, dec, life, obs, inputAge>>

AskKeyframe(q) == [q EXCEPT !.sincePLI = 0, !.asked = TRUE]

\* Without a chain, ask for an IDR, at most once in the interval, and wait with
\* a timer; with one, wait to be woken.
WorkerEmpty ==
  LET needs == ~p.synced /\ ~p.resetting
      asks == needs /\ p.sincePLI >= PLIInterval
  IN /\ worker.pc = "empty"
     /\ worker' = [worker EXCEPT !.pc = "wait", !.timer = needs]
     /\ p' = IF asks THEN AskKeyframe(p) ELSE p
     /\ UNCHANGED <<units, dec, life, obs, inputAge>>

WorkerWake ==
  /\ worker.pc = "wait"
  /\ \/ ~Live /\ p.ended /\ worker' = [worker EXCEPT !.pc = "done"]
                         /\ p' = [p EXCEPT !.pending = <<>>]
     \/ p.wake /\ worker' = [worker EXCEPT !.pc = "top", !.timer = FALSE]
               /\ p' = [p EXCEPT !.wake = FALSE]
     \/ worker.timer /\ p.sincePLI >= PLIInterval
        /\ worker' = [worker EXCEPT !.pc = "top", !.timer = FALSE] /\ p' = p
  /\ UNCHANGED <<units, dec, life, obs, inputAge>>

Current(u) == ~p.closed /\ ~p.resetting /\ u.gen = p.gen /\ u.chain = p.chain

\* decodeUnit, up to the decoder: a unit of another chain or generation is
\* refused.
WorkerStart ==
  /\ worker.pc = "taken"
  /\ IF Current(worker.unit)
     THEN /\ worker' = [worker EXCEPT !.pc = "decode"]
          /\ p' = [p EXCEPT !.decoding = TRUE, !.cancelled = p.ended]
     ELSE worker' = [worker EXCEPT !.pc = "judge", !.failed = TRUE] /\ p' = p
  /\ UNCHANGED <<units, dec, life, obs, inputAge>>

\* What the decoder holds once it is fed a unit: an IDR starts over, another
\* unit needs all before it.  It is reset first when the chain is another.
Fed(d, u, fresh) ==
  LET e == IF fresh THEN NewDecoder ELSE d
      whole == u.key \/ (e.whole /\ u.n = e.last + 1)
  IN [e EXCEPT !.last = IF whole THEN u.n ELSE 0, !.whole = whole]

\* The decoder is reset when its chain is not the unit's, and decodes.  It may
\* fail, and fails when cancelled; it may keep the picture back and give out the
\* one it kept before.
WorkerDecode ==
  LET u == worker.unit
      fresh == p.decoderChain # u.chain
      d == Fed(dec, u, fresh)
      picture == [n |-> u.n, gen |-> u.gen, chain |-> u.chain, age |-> u.age,
                  whole |-> d.whole]
      Gives(failed, out) ==
        worker' = [worker EXCEPT !.pc = "fed", !.failed = failed, !.out = out]
  IN /\ worker.pc = "decode"
     /\ \/ Gives(TRUE, NoPicture) /\ dec' = d /\ p' = [p EXCEPT !.decoderChain = u.chain]
        \/ fresh /\ Gives(TRUE, NoPicture) /\ UNCHANGED <<dec, p>>
        \/ /\ ~p.cancelled
           /\ \/ Gives(FALSE, picture) /\ dec' = d
              \/ Gives(FALSE, d.held) /\ dec' = [d EXCEPT !.held = picture]
           /\ p' = [p EXCEPT !.decoderChain = u.chain]
     /\ UNCHANGED <<units, life, obs, inputAge>>

\* decodeUnit, after the decoder: what was decoded is shown unless the chain or
\* the generation has changed meanwhile, or a later picture is shown.
WorkerPublish ==
  LET shown == /\ Current(worker.unit)
               /\ ~worker.failed /\ worker.out # NoPicture
               /\ worker.out.gen = p.gen /\ worker.out.n >= p.latest.n
  IN /\ worker.pc = "fed"
     /\ worker' = [worker EXCEPT !.pc = "judge", !.out = NoPicture,
                                 !.failed = @ \/ ~Current(worker.unit)]
     /\ p' = [p EXCEPT !.decoding = FALSE, !.cancelled = FALSE,
                       !.latest = IF shown THEN worker.out ELSE @]
     /\ UNCHANGED <<units, dec, life, obs, inputAge>>

\* A failure breaks the chain, if it is still the unit's.
WorkerJudge ==
  /\ worker.pc = "judge"
  /\ p' = IF worker.failed /\ Current(worker.unit) THEN BreakChain(p) ELSE p
  /\ worker' = [worker EXCEPT !.pc = "top", !.unit = NoUnit, !.failed = FALSE]
  /\ UNCHANGED <<units, dec, life, obs, inputAge>>

--------------------------------------------------------------------------
(* Reset and Close *)

\* Reset voids everything and cancels the decoding; it then waits for pushMu.
StartReset(g) ==
  /\ life.pc = "free" /\ ~p.closed /\ g # p.gen /\ p.chain < MaxChain
  /\ life' = [pc |-> "resetting", gen |-> g]
  /\ p' = [BreakChain(p) EXCEPT !.resetting = TRUE, !.cancelled = p.decoding]
  /\ UNCHANGED <<units, dec, worker, obs, inputAge>>

FinishReset ==
  /\ life.pc = "resetting" /\ worker.pc \notin Holding
  /\ \/ /\ p' = [p EXCEPT !.resetting = FALSE, !.wake = TRUE, !.gen = life.gen,
                          !.gap = FALSE, !.latest = NoPicture,
                          !.sincePLI = PLIInterval]
        /\ dec' = NewDecoder
     \/ p' = [p EXCEPT !.resetting = FALSE, !.wake = TRUE] /\ UNCHANGED dec
  /\ life' = [pc |-> "free", gen |-> 0]
  /\ UNCHANGED <<units, worker, obs, inputAge>>

\* Mutant of StartClose: the stream's context is left alone.
StartCloseOnly ==
  /\ life.pc = "free" /\ ~p.closed
  /\ life' = [pc |-> "joining", gen |-> 0]
  /\ p' = [p EXCEPT !.closed = TRUE, !.pending = <<>>, !.cancelled = p.decoding]
  /\ UNCHANGED <<units, dec, worker, obs, inputAge>>

\* Close cancels the stream and the decoding, and then joins the worker.
StartClose ==
  /\ life.pc = "free" /\ ~p.closed
  /\ life' = [pc |-> "joining", gen |-> 0]
  /\ p' = [p EXCEPT !.closed = TRUE, !.pending = <<>>, !.ended = TRUE,
                    !.cancelled = p.decoding]
  /\ UNCHANGED <<units, dec, worker, obs, inputAge>>

FinishClose ==
  /\ life.pc = "joining" /\ worker.pc = "done"
  /\ life' = [pc |-> "closed", gen |-> 0]
  /\ dec' = [NewDecoder EXCEPT !.closed = TRUE]
  /\ UNCHANGED <<units, p, worker, obs, inputAge>>

--------------------------------------------------------------------------
(* Observers *)

\* sessionAdapter.Observe: a picture from before the last input will not do.
Observe(o) ==
  /\ obs[o].pc = "idle"
  /\ obs' = [obs EXCEPT ![o] = [pc |-> "waiting", gen |-> p.gen,
                                bound |-> inputAge, picture |-> NoPicture]]
  /\ UNCHANGED <<units, p, dec, worker, life, inputAge>>

\* Mutant of Await: any fresh picture will do.
AwaitFresh(o) ==
  /\ obs[o].pc = "waiting" /\ Live /\ obs[o].gen = p.gen
  /\ p.latest # NoPicture /\ p.latest.age <= Freshness
  /\ obs' = [obs EXCEPT ![o].pc = "got", ![o].picture = p.latest]
  /\ UNCHANGED <<units, p, dec, worker, life, inputAge>>

\* AwaitObservation, each time it looks: return the picture shown if it will do,
\* else ask for an IDR when nothing is on its way.  It looks again whenever it
\* is notified and, with a requester, from time to time.
Await(o) ==
  LET fresh == p.latest # NoPicture /\ p.latest.age <= Freshness
      asks == ~p.decoding /\ p.pending = <<>> /\ (~p.synced \/ ~fresh)
              /\ p.sincePLI >= PLIInterval
  IN /\ obs[o].pc = "waiting" /\ Live /\ obs[o].gen = p.gen
     /\ \/ /\ fresh /\ p.latest.age <= obs[o].bound
           /\ obs' = [obs EXCEPT ![o].pc = "got", ![o].picture = p.latest]
           /\ p' = p
        \/ /\ ~(fresh /\ p.latest.age <= obs[o].bound) /\ asks
           /\ p' = AskKeyframe(p) /\ obs' = obs
     /\ UNCHANGED <<units, dec, worker, life, inputAge>>

\* A call ends with its picture, or without one: its time is up, the last
\* decoding failed, the pipeline was reset or closed.
Leave(o) ==
  /\ obs[o].pc # "idle"
  /\ obs' = [obs EXCEPT ![o] = NoObserver]
  /\ UNCHANGED <<units, p, dec, worker, life, inputAge>>

\* An input is complete; the session's calls run one at a time.
Input ==
  /\ \A o \in Observers : obs[o].pc = "idle"
  /\ inputAge # 0 /\ inputAge' = 0
  /\ UNCHANGED <<units, p, dec, worker, life, obs>>

--------------------------------------------------------------------------

\* A request for a keyframe is lost.
LoseRequest ==
  /\ p.asked
  /\ p' = [p EXCEPT !.asked = FALSE]
  /\ UNCHANGED <<units, dec, worker, life, obs, inputAge>>

Tick ==
  /\ p' = [p EXCEPT !.latest = Aged(@),
                    !.sincePLI = IF @ = PLIInterval THEN @ ELSE @ + 1,
                    !.pending = [i \in DOMAIN @ |-> Aged(@[i])]]
  /\ worker' = [worker EXCEPT !.unit = Aged(@), !.out = Aged(@)]
  /\ dec' = [dec EXCEPT !.held = Aged(@)]
  /\ obs' = [o \in Observers |->
       IF obs[o].pc = "idle" THEN NoObserver
       ELSE [obs[o] EXCEPT !.bound = Older(@), !.picture = Aged(@)]]
  /\ inputAge' = Older(inputAge)
  /\ UNCHANGED <<units, life>>

WorkerStep == \/ WorkerTop \/ WorkerEmpty \/ WorkerWake \/ WorkerStart
              \/ WorkerDecode \/ WorkerPublish \/ WorkerJudge

Next ==
  \/ \E key \in BOOLEAN : Arrive(key)
  \/ Miss \/ EndStream
  \/ WorkerStep
  \/ \E g \in 1 .. MaxGen : StartReset(g)
  \/ FinishReset \/ StartClose \/ FinishClose
  \/ \E o \in Observers : Observe(o) \/ Await(o) \/ Leave(o)
  \/ Input \/ LoseRequest \/ Tick

Spec == Init /\ [][Next]_vars

\* The worker and the calls of the lifecycle are goroutines that are scheduled;
\* decoding ends, and time passes.
FairSpec ==
  /\ Spec
  /\ WF_vars(WorkerStep) /\ WF_vars(FinishReset) /\ WF_vars(FinishClose)
  /\ WF_vars(Tick)

--------------------------------------------------------------------------
(* Properties *)

\* Types; the queue is bounded and belongs to the current chain.
TypeOK ==
  /\ units \in 0 .. MaxUnits
  /\ p.pending \in Seq(Unit) /\ Len(p.pending) <= MaxPending
  /\ \A i \in DOMAIN p.pending : p.pending[i].chain = p.chain
  /\ worker.pc \in {"top", "empty", "wait", "taken", "decode", "fed", "judge", "done"}
  /\ life.pc \in {"free", "resetting", "joining", "closed"}
  /\ p.sincePLI \in 0 .. PLIInterval
  /\ \A o \in Observers : obs[o].pc \in {"idle", "waiting", "got"}
  /\ inputAge \in Ages

\* The picture shown was decoded from an IDR and every unit after it, and
\* nothing has been lost since (pipeline.go:145, "Loss/overload invalidates
\* queued and in-flight output").
ShownWhole ==
  p.latest # NoPicture =>
    p.latest.whole /\ p.latest.chain = p.chain /\ p.latest.gen = p.gen

\* A call gets a picture of its own generation that was received after the last
\* input was complete (automation/video.go:172, pipeline.go:268).
ObservedAfterInput ==
  \A o \in Observers : obs[o].pc = "got" =>
    /\ obs[o].picture.whole /\ obs[o].picture.gen = obs[o].gen
    /\ obs[o].picture.age <= inputAge

\* Without a chain the worker keeps asking for an IDR, even when requests are
\* lost and nobody observes (live.go:83, "also requests recovery while no
\* observer is waiting").
RecoveryAsked == []<>(p.synced \/ p.asked \/ p.resetting \/ ~Live)

\* Close joins the worker, wherever it finds it (live.go:12, "Close cancels and
\* joins the only decoder worker").
CloseJoins == (life.pc = "joining") ~> (life.pc = "closed")
=============================================================================
