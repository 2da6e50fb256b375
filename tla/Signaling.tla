------------------------------ MODULE Signaling ------------------------------
(***************************************************************************)
(* How one JetKVM session comes up and goes down (openSession and          *)
(* shutdown of internal/jetkvm/session.go, and signaling.go): the opener,  *)
(* the writer and the reader of the signaling socket, the HID handshake,   *)
(* and the callbacks of the peer connection that report local candidates.  *)
(* The socket is dialled and has sent its metadata.  RpcSession has the    *)
(* sessions of a client, their calls and their reports.                    *)
(*                                                                         *)
(* The device answers, sends candidates and pings in any order, or stops   *)
(* reading; a channel opens or not; the connect timeout may pass anywhere. *)
(***************************************************************************)
EXTENDS Naturals, FiniteSets, Sequences, SequencesExt

CONSTANTS
  LocalOrder,     \* local candidates, as the peer connection reports them
  Remotes,        \* candidates of the device
  OutboundBuffer, \* outboundSignalBuffer
  MaxTries,       \* hidHandshakeAttempts
  MaxPings        \* bound on the pings of the device

Locals == Range(LocalOrder)

SignalingAssumption ==
  /\ Locals \cap Remotes = {}
  /\ Locals \cap {"offer", "pong", "nothing"} = {}
  /\ Remotes \cap {"answer", "ping"} = {}
  /\ OutboundBuffer \in Nat \ {0} /\ MaxTries \in Nat \ {0} /\ MaxPings \in Nat

VARIABLES
  opener,     \* openSession, and later the caller's CloseContext
  late,       \* the connect timeout has passed
  offerSent, preOffer, outbound,  \* Session.offerSent, .preOffer, .outbound
  flushing,   \* what sendOffer has still to enqueue
  callback,   \* OnICECandidate, for each local candidate
  lock,       \* who holds signalSocket.writeMu
  writer, reader, negotiator,     \* the workers
  hand,       \* the message the writer has taken
  wire,       \* messages the socket has accepted
  stalled,    \* the device no longer reads the socket
  inbox,      \* messages of the device not read yet
  told,       \* messages of the device so far
  applied,    \* the remote description is set
  held, added,      \* remote candidates: waiting for the answer, added
  rpcOpen, hid,     \* the channels; hid: closed, open, ready
  tries,      \* handshake messages sent
  stage       \* Session.shutdown: up, closing (cancelled), done

signals == <<offerSent, preOffer, outbound, flushing, callback>>
socket == <<lock, hand, wire, stalled>>
device == <<inbox, told>>
peer == <<applied, held, added, rpcOpen, hid, tries>>
vars == <<opener, late, signals, writer, reader, negotiator, socket, device,
          peer, stage>>

Ended == {"returned", "failed", "closed"}
Workers == {"opener", "writer", "reader"}

TypeOK ==
  /\ opener \in Ended \cup {"offer", "lock", "write", "flag", "flush",
       "answer", "rpc", "hid", "failing", "joining", "closing", "leaving"}
  /\ late \in BOOLEAN /\ offerSent \in BOOLEAN
  /\ preOffer \in Seq(Locals) /\ flushing \in Seq(Locals)
  /\ outbound \in Seq(Locals) /\ Len(outbound) <= OutboundBuffer
  /\ callback \in [Locals -> {"none", "checked", "enqueue", "over"}]
  /\ lock \in Workers \cup {"nobody"}
  /\ writer \in {"idle", "lock", "write", "shutting", "over"}
  /\ reader \in {"read", "lock", "write", "shutting", "over"}
  /\ negotiator \in {"open", "try", "wait", "shutting", "over"}
  /\ hand \in Locals \cup {"nothing"}
  /\ wire \in Seq(Locals \cup {"offer", "pong"})
  /\ stalled \in BOOLEAN
  /\ inbox \in Seq(Remotes \cup {"answer", "ping"})
  /\ applied \in BOOLEAN /\ held \subseteq Remotes /\ added \subseteq Remotes
  /\ rpcOpen \in BOOLEAN /\ hid \in {"closed", "open", "ready"}
  /\ tries \in 0 .. MaxTries
  /\ stage \in {"up", "closing", "done"}

Init ==
  /\ opener = "offer" /\ late = FALSE
  /\ offerSent = FALSE /\ preOffer = <<>> /\ outbound = <<>> /\ flushing = <<>>
  /\ callback = [c \in Locals |-> "none"]
  /\ lock = "nobody" /\ hand = "nothing" /\ wire = <<>> /\ stalled = FALSE
  /\ writer = "idle" /\ reader = "read" /\ negotiator = "open"
  /\ inbox = <<>> /\ told = [answer |-> FALSE, from |-> {}, pings |-> 0]
  /\ applied = FALSE /\ held = {} /\ added = {} /\ rpcOpen = FALSE
  /\ hid = "closed" /\ tries = 0 /\ stage = "up"

--------------------------------------------------------------------------
(* Shutdown *)

\* The session's context: shutdown cancels it before it closes the peer.
Cancelled == stage # "up"

\* shutdown begins, by the first who calls it; the others wait for that one.
Shutdown == stage' = IF stage = "up" THEN "closing" ELSE stage

\* The peer and the socket are closed, and then done.  The peer may wait for
\* its callbacks to return.
PeerClosed ==
  /\ stage = "closing"
  /\ \A c \in Locals : callback[c] # "enqueue"
  /\ stage' = "done"
  /\ UNCHANGED <<opener, late, signals, writer, reader, negotiator, socket,
                 device, peer>>

\* The link fails: the peer connection reports it, or a callback meets an
\* error of its own.
PeerFails ==
  /\ stage = "up" /\ Shutdown
  /\ UNCHANGED <<opener, late, signals, writer, reader, negotiator, socket,
                 device, peer>>

--------------------------------------------------------------------------
(* The signaling socket *)

Full == Len(outbound) >= OutboundBuffer

\* enqueueSignal: room in the queue, or the end of the session.
Enqueue(c) ==
  \/ ~Full /\ outbound' = Append(outbound, c)
  \/ Cancelled /\ UNCHANGED outbound

\* What a writer of the socket does next, and what becomes of its failure.
Message(p) == CASE p = "opener" -> "offer" [] p = "writer" -> hand [] OTHER -> "pong"
At(p, pc) ==
  CASE p = "opener" -> opener = pc [] p = "writer" -> writer = pc [] OTHER -> reader = pc
Move(p, ofOpener, ofWriter, ofReader) ==
  /\ opener' = IF p = "opener" THEN ofOpener ELSE opener
  /\ writer' = IF p = "writer" THEN ofWriter ELSE writer
  /\ reader' = IF p = "reader" THEN ofReader ELSE reader

\* writeText takes writeMu, which knows no context.
TakeLock(p) ==
  /\ At(p, "lock") /\ lock = "nobody"
  /\ lock' = p
  /\ Move(p, "write", "write", "write")
  /\ UNCHANGED <<late, signals, negotiator, hand, wire, stalled, device, peer,
                 stage>>

Write(p) ==
  /\ At(p, "write") /\ ~stalled /\ stage # "done"
  /\ wire' = Append(wire, Message(p))
  /\ lock' = "nobody"
  /\ hand' = IF p = "writer" THEN "nothing" ELSE hand
  /\ Move(p, "flag", "idle", "read")
  /\ UNCHANGED <<late, signals, negotiator, stalled, device, peer, stage>>

\* A write ends with its context - the opener's has the connect timeout, the
\* workers' only the session - or with the socket.
WriteFails(p) ==
  /\ At(p, "write")
  /\ (IF p = "opener" THEN late ELSE Cancelled) \/ stage = "done" \/ ~stalled
  /\ lock' = "nobody"
  /\ hand' = IF p = "writer" THEN "nothing" ELSE hand
  /\ Move(p, "failing", "shutting", "shutting")
  /\ IF p = "opener" THEN UNCHANGED stage ELSE Shutdown
  /\ UNCHANGED <<late, signals, negotiator, wire, stalled, device, peer>>

\* writeSignals.
WriterTakes ==
  /\ writer = "idle"
  /\ \/ /\ outbound # <<>>
        /\ hand' = Head(outbound) /\ outbound' = Tail(outbound)
        /\ writer' = "lock"
     \/ Cancelled /\ writer' = "over" /\ UNCHANGED <<hand, outbound>>
  /\ UNCHANGED <<opener, late, offerSent, preOffer, flushing, callback, reader,
                 negotiator, lock, wire, stalled, device, peer, stage>>

\* A worker that called shutdown returns when it is done.
WorkerEnds ==
  /\ stage = "done"
  /\ \/ writer = "shutting" /\ writer' = "over" /\ UNCHANGED <<reader, negotiator>>
     \/ reader = "shutting" /\ reader' = "over" /\ UNCHANGED <<writer, negotiator>>
     \/ negotiator = "shutting" /\ negotiator' = "over" /\ UNCHANGED <<writer, reader>>
  /\ UNCHANGED <<opener, late, signals, socket, device, peer, stage>>

--------------------------------------------------------------------------
(* Reading *)

\* Mutant of Read: the candidates held back are forgotten with the answer.
ReadForgets ==
  /\ reader = "read" /\ inbox # <<>>
  /\ inbox' = Tail(inbox)
  /\ LET m == Head(inbox) IN
     \/ /\ m = "answer" /\ applied' = TRUE /\ held' = {}
        /\ UNCHANGED <<added, reader, stage>>
     \/ /\ m \in Remotes
        /\ IF applied THEN added' = added \cup {m} /\ UNCHANGED held
           ELSE held' = held \cup {m} /\ UNCHANGED added
        /\ UNCHANGED <<applied, reader, stage>>
     \/ m = "ping" /\ reader' = "lock" /\ UNCHANGED <<applied, held, added, stage>>
     \/ /\ m # "ping" /\ reader' = "shutting" /\ Shutdown
        /\ UNCHANGED <<applied, held, added>>
  /\ UNCHANGED <<opener, late, signals, writer, negotiator, socket, told,
                 rpcOpen, hid, tries>>

\* readSignals: the answer and the candidates that came before it, further
\* candidates, and pings.  A message that is malformed or that the peer
\* refuses ends the session.
Read ==
  /\ reader = "read" /\ inbox # <<>>
  /\ inbox' = Tail(inbox)
  /\ LET m == Head(inbox) IN
     \/ /\ m = "answer" /\ applied' = TRUE
        /\ added' = added \cup held /\ held' = {}
        /\ UNCHANGED <<reader, stage>>
     \/ /\ m \in Remotes
        /\ IF applied THEN added' = added \cup {m} /\ UNCHANGED held
           ELSE held' = held \cup {m} /\ UNCHANGED added
        /\ UNCHANGED <<applied, reader, stage>>
     \/ m = "ping" /\ reader' = "lock" /\ UNCHANGED <<applied, held, added, stage>>
     \/ /\ m # "ping" /\ reader' = "shutting" /\ Shutdown
        /\ UNCHANGED <<applied, held, added>>
  /\ UNCHANGED <<opener, late, signals, writer, negotiator, socket, told,
                 rpcOpen, hid, tries>>

\* The read ends with the session's context, or the socket is lost.
ReadFails ==
  /\ reader = "read"
  /\ reader' = "shutting" /\ Shutdown
  /\ UNCHANGED <<opener, late, signals, writer, negotiator, socket, device, peer>>

--------------------------------------------------------------------------
(* Local candidates *)

\* The callbacks begin one after the other, and then overlap.
InTurn(c) ==
  \E i \in DOMAIN LocalOrder :
    /\ LocalOrder[i] = c
    /\ \A j \in 1 .. i - 1 : callback[LocalOrder[j]] # "none"

\* Mutant of Candidate: the mutex is released between the look and the append.
CandidateUnlocked(c) ==
  /\ stage # "done" /\ opener # "offer"
  /\ \/ /\ callback[c] = "none" /\ InTurn(c)
        /\ callback' = [callback EXCEPT ![c] =
             IF offerSent THEN "enqueue" ELSE "checked"]
        /\ UNCHANGED preOffer
     \/ /\ callback[c] = "checked"
        /\ preOffer' = Append(preOffer, c)
        /\ callback' = [callback EXCEPT ![c] = "over"]
  /\ UNCHANGED <<opener, late, offerSent, outbound, flushing, writer, reader,
                 negotiator, socket, device, peer, stage>>

\* OnICECandidate: kept until the offer is sent, and from then on enqueued.
Candidate(c) ==
  /\ callback[c] = "none" /\ InTurn(c) /\ stage # "done" /\ opener # "offer"
  /\ callback' = [callback EXCEPT ![c] = IF offerSent THEN "enqueue" ELSE "over"]
  /\ preOffer' = IF offerSent THEN preOffer ELSE Append(preOffer, c)
  /\ UNCHANGED <<opener, late, offerSent, outbound, flushing, writer, reader,
                 negotiator, socket, device, peer, stage>>

EnqueueCandidate(c) ==
  /\ callback[c] = "enqueue" /\ Enqueue(c)
  /\ callback' = [callback EXCEPT ![c] = "over"]
  /\ UNCHANGED <<opener, late, offerSent, preOffer, flushing, writer, reader,
                 negotiator, socket, device, peer, stage>>

--------------------------------------------------------------------------
(* The HID handshake *)

\* negotiateHID: the handshake is sent again until the device answers it.
Negotiate ==
  /\ \/ /\ negotiator = "open" /\ hid # "closed" /\ negotiator' = "try"
        /\ UNCHANGED <<tries, stage>>
     \/ /\ negotiator = "try"
        /\ \/ tries' = tries + 1 /\ negotiator' = "wait" /\ UNCHANGED stage
           \/ negotiator' = "shutting" /\ Shutdown /\ UNCHANGED tries
     \/ /\ negotiator = "wait" /\ hid = "ready" /\ negotiator' = "over"
        /\ UNCHANGED <<tries, stage>>
     \/ /\ negotiator = "wait" /\ UNCHANGED tries
        /\ IF tries < MaxTries THEN negotiator' = "try" /\ UNCHANGED stage
           ELSE negotiator' = "shutting" /\ Shutdown
     \/ /\ negotiator \in {"open", "wait"} /\ Cancelled /\ negotiator' = "over"
        /\ UNCHANGED <<tries, stage>>
  /\ UNCHANGED <<opener, late, signals, writer, reader, socket, device, applied,
                 held, added, rpcOpen, hid>>

--------------------------------------------------------------------------
(* openSession *)

\* Mutant of SendOffer: candidates may go out once the offer is being made.
SendOfferEarly ==
  /\ \/ /\ opener = "offer" /\ opener' \in {"lock", "failing"}
        /\ offerSent' = TRUE /\ flushing' = preOffer /\ preOffer' = <<>>
     \/ /\ opener = "flag" /\ opener' = "flush"
        /\ UNCHANGED <<offerSent, flushing, preOffer>>
  /\ UNCHANGED <<late, outbound, callback, writer, reader, negotiator, socket,
                 device, peer, stage>>

\* sendOffer: the local description is set, which starts the candidates, the
\* offer is written, and what was kept is taken over under candidateMu.
SendOffer ==
  /\ \/ /\ opener = "offer" /\ opener' \in {"lock", "failing"}
        /\ UNCHANGED <<offerSent, flushing, preOffer>>
     \/ /\ opener = "flag" /\ opener' = "flush"
        /\ offerSent' = TRUE /\ flushing' = preOffer /\ preOffer' = <<>>
  /\ UNCHANGED <<late, outbound, callback, writer, reader, negotiator, socket,
                 device, peer, stage>>

FlushKept ==
  /\ opener = "flush"
  /\ IF flushing = <<>> THEN opener' = "answer" /\ UNCHANGED <<flushing, outbound>>
     ELSE /\ Enqueue(Head(flushing)) /\ flushing' = Tail(flushing)
          /\ UNCHANGED opener
  /\ UNCHANGED <<late, offerSent, preOffer, callback, writer, reader,
                 negotiator, socket, device, peer, stage>>

\* waitReady: the answer, the channel, the handshake; or the end of the
\* session or of the connect timeout, whichever select picks.
WaitReady ==
  /\ opener \in {"answer", "rpc", "hid"}
  /\ \/ opener = "answer" /\ applied /\ opener' = "rpc"
     \/ opener = "rpc" /\ rpcOpen /\ opener' = "hid"
     \/ opener = "hid" /\ hid = "ready" /\ opener' = "returned"
     \/ (stage = "done" \/ late) /\ opener' = "failing"
  /\ UNCHANGED <<late, signals, writer, reader, negotiator, socket, device,
                 peer, stage>>

\* A failed open, and CloseContext: shutdown, then the workers are joined.
ShutAndJoin ==
  /\ \/ opener = "failing" /\ Shutdown /\ opener' = "joining"
     \/ opener = "closing" /\ Shutdown /\ opener' = "leaving"
     \/ /\ opener \in {"joining", "leaving"} /\ stage = "done"
        /\ writer = "over" /\ reader = "over" /\ negotiator = "over"
        /\ opener' = IF opener = "joining" THEN "failed" ELSE "closed"
        /\ UNCHANGED stage
  /\ UNCHANGED <<late, signals, writer, reader, negotiator, socket, device, peer>>

Close ==
  /\ opener = "returned" /\ opener' = "closing"
  /\ UNCHANGED <<late, signals, writer, reader, negotiator, socket, device,
                 peer, stage>>

\* The connect timeout, which ends with openSession.
Deadline ==
  /\ opener \notin Ended \cup {"closing", "leaving"} /\ ~late /\ late' = TRUE
  /\ UNCHANGED <<opener, signals, writer, reader, negotiator, socket, device,
                 peer, stage>>

--------------------------------------------------------------------------
(* The device *)

DeviceSends(m) ==
  /\ stage = "up"
  /\ CASE m = "ping" -> /\ told.pings < MaxPings
                        /\ told' = [told EXCEPT !.pings = @ + 1]
       [] m = "answer" -> /\ "offer" \in Range(wire) /\ ~told.answer
                        /\ told' = [told EXCEPT !.answer = TRUE]
       [] OTHER ->      /\ "offer" \in Range(wire) /\ m \notin told.from
                        /\ told' = [told EXCEPT !.from = @ \cup {m}]
  /\ inbox' = Append(inbox, m)
  /\ UNCHANGED <<opener, late, signals, writer, reader, negotiator, socket, peer,
                 stage>>

\* Channels open once both descriptions are set; the device answers the
\* handshake, or a message that is not of the protocol ends the session.
Channels ==
  /\ applied /\ stage = "up"
  /\ \/ ~rpcOpen /\ rpcOpen' = TRUE /\ UNCHANGED <<hid, stage>>
     \/ hid = "closed" /\ hid' = "open" /\ UNCHANGED <<rpcOpen, stage>>
     \/ /\ hid = "open" /\ tries > 0 /\ UNCHANGED rpcOpen
        /\ \/ hid' = "ready" /\ UNCHANGED stage
           \/ Shutdown /\ UNCHANGED hid
  /\ UNCHANGED <<opener, late, signals, writer, reader, negotiator, socket,
                 device, applied, held, added, tries>>

Stall ==
  /\ ~stalled /\ stage = "up" /\ stalled' = TRUE
  /\ UNCHANGED <<opener, late, signals, writer, reader, negotiator, lock, hand,
                 wire, device, peer, stage>>

--------------------------------------------------------------------------

OpenerStep ==
  \/ TakeLock("opener") \/ Write("opener") \/ WriteFails("opener")
  \/ SendOffer \/ FlushKept \/ WaitReady \/ ShutAndJoin
WriterStep ==
  \/ TakeLock("writer") \/ Write("writer") \/ WriteFails("writer") \/ WriterTakes
ReaderStep ==
  \/ TakeLock("reader") \/ Write("reader") \/ WriteFails("reader") \/ Read
CallbackStep == \E c \in Locals : Candidate(c) \/ EnqueueCandidate(c)

DeviceStep ==
  \/ \E m \in Remotes \cup {"answer", "ping"} : DeviceSends(m)
  \/ Channels \/ Stall \/ PeerFails

Over == opener \in Ended /\ stage = "done" /\ UNCHANGED vars

Next ==
  \/ OpenerStep \/ WriterStep \/ ReaderStep \/ ReadFails \/ WorkerEnds
  \/ Negotiate \/ CallbackStep \/ Close \/ Deadline \/ DeviceStep
  \/ PeerClosed \/ Over

Spec == Init /\ [][Next]_vars

\* Goroutines run, timers fire, and a cancelled read returns.  The device owes
\* nothing, and nobody has to close.
FairSpec ==
  /\ Spec
  /\ WF_vars(OpenerStep) /\ WF_vars(WriterStep) /\ WF_vars(ReaderStep)
  /\ WF_vars(ReadFails /\ Cancelled) /\ WF_vars(WorkerEnds) /\ WF_vars(Negotiate)
  /\ \A c \in Locals : WF_vars(EnqueueCandidate(c))
  /\ WF_vars(Deadline) /\ WF_vars(PeerClosed)

--------------------------------------------------------------------------
(* Properties *)

\* The device sees the offer before any candidate, and every candidate once,
\* whichever of the callbacks, sendOffer and the writer comes first
\* (candidateMu, enqueueSignal).
OfferFirst ==
  /\ \A i \in DOMAIN wire : wire[i] \in Locals =>
       \E j \in 1 .. i - 1 : wire[j] = "offer"
  /\ \A i, j \in DOMAIN wire : wire[i] = wire[j] /\ wire[i] \in Locals => i = j

\* No local candidate is lost: while the session is up, one that a callback
\* has dealt with is kept, queued, in the writer's hand or sent; and nothing
\* is kept once the offer is out.
CandidatesKept ==
  stage = "up" =>
    /\ \A c \in Locals : callback[c] = "over" =>
         c \in Range(preOffer) \cup Range(flushing) \cup Range(outbound)
               \cup {hand} \cup Range(wire)
    /\ offerSent => preOffer = <<>>

\* Every remote candidate that was read is at the peer once the answer is,
\* and none before (readSignals).
RemoteKept ==
  /\ added # {} => applied
  /\ stage = "up" => held \cup added = told.from \ Range(inbox)
  /\ applied => held = {}

OpenEnded == opener \in Ended \cup {"closing", "leaving"}

\* "Connection establishment is bounded" (docs/design.md:612): openSession
\* returns after its connect timeout.
OpenBounded == late ~> OpenEnded

\* It outlives its timeout in two ways only, both with a socket the device
\* does not read: waiting for writeMu behind the answer to a ping, and for
\* room in the queue of candidates (signaling.go:83, session.go:362).
Blocked ==
  /\ stalled
  /\ \/ opener = "lock" /\ lock = "reader"
     \/ opener = "flush" /\ Full /\ writer # "idle"
OpenEndsOrBlocked == late ~> (OpenEnded \/ Blocked)

\* A session that shuts down is closed, its workers return and its callbacks
\* do not stay behind, also when queue and socket are stuck (shutdown, wait).
AllDown ==
  /\ stage = "done"
  /\ writer = "over" /\ reader = "over" /\ negotiator = "over"
  /\ \A c \in Locals : callback[c] # "enqueue"
ShutdownCompletes == stage = "closing" ~> AllDown
=============================================================================
