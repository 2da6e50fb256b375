------------------------------- MODULE MCLink -------------------------------
(***************************************************************************)
(* What comes through the link to a device, for TLC: the signaling of one  *)
(* session (Signaling), the login of the HTTP client (ClientAuth), and the *)
(* picture, from its packets (RtpReceive) through the pipeline to an       *)
(* observer (VideoPipeline).  They share no state, so a behaviour moves    *)
(* one of them (part) and leaves the others as they start: a run explores  *)
(* the union of their behaviours, not the product.                         *)
(***************************************************************************)
EXTENDS RtpReceive

CONSTANTS
  LocalOrder, Remotes, OutboundBuffer, MaxTries, MaxPings,        \* Signaling
  Requests, MaxRevoked, MaxLost, Passwords,                       \* ClientAuth
  Observers, MaxPending, Freshness, PLIInterval, MaxUnits, MaxGen, MaxChain
                                                                  \* VideoPipeline

VARIABLES
  part,
  connecting, late, offerSent, preOffer, outbound, flushing, callback, lock,
  writer, reader, negotiator, writing, wire, stalled, inbox, told, applied,
  held, added, rpcOpen, hidChannel, tries, shutting,
  password, cookie, jar, carried, pc, authMu, logins, revoked, lost, seen,
  units, pipe, dec, worker, life, obs, inputAge

S == INSTANCE Signaling
       WITH opener <- connecting, hand <- writing, hid <- hidChannel,
            stage <- shutting
A == INSTANCE ClientAuth WITH token <- cookie
V == INSTANCE VideoPipeline WITH p <- pipe

ASSUME LinkAssumption ==
  /\ S!SignalingAssumption /\ A!BoundsAssumption
  /\ A!PasswordsAssumption /\ A!RequestsAssumption /\ V!BoundsAssumption

signalingVars ==
  <<connecting, late, offerSent, preOffer, outbound, flushing, callback, lock,
    writer, reader, negotiator, writing, wire, stalled, inbox, told, applied,
    held, added, rpcOpen, hidChannel, tries, shutting>>
loginVars ==
  <<password, cookie, jar, carried, pc, authMu, logins, revoked, lost, seen>>
pipelineVars == <<units, pipe, dec, worker, life, obs, inputAge>>
linkVars == <<part, vars, signalingVars, loginVars, pipelineVars>>

LinkInit ==
  /\ part \in {"signaling", "keepalive", "login", "packets", "pipeline"}
  /\ Init /\ S!Init /\ A!Init /\ V!Init
  /\ part # "login" => password = "right"

\* Local candidates, whose order matters, without a ping and with one handshake;
\* and the first of them beside pings and a handshake that is sent again.
LinkNext ==
  \/ /\ part = "signaling" /\ S!Next /\ told'.pings = 0 /\ tries' <= 1
     /\ UNCHANGED <<part, vars, loginVars, pipelineVars>>
  \/ /\ part = "keepalive" /\ S!Next
     /\ \A i \in DOMAIN LocalOrder : i > 1 => callback'[LocalOrder[i]] = "none"
     /\ UNCHANGED <<part, vars, loginVars, pipelineVars>>
  \/ /\ part = "login" /\ A!Next
     /\ UNCHANGED <<part, vars, signalingVars, pipelineVars>>
  \/ /\ part = "packets" /\ Next
     /\ UNCHANGED <<part, signalingVars, loginVars, pipelineVars>>
  \/ /\ part = "pipeline" /\ V!Next
     /\ UNCHANGED <<part, vars, signalingVars, loginVars>>

LinkSpec == LinkInit /\ [][LinkNext]_linkVars

\* An IDR in fragments, a predicted picture in one packet, one of more packets than
\* the receiver keeps, one in fragments, an IDR of two slices that relies on the
\* parameters of the first, and a payload the receiver rejects.
Pictures ==
         << <<"params", "idr_start", "idr_end">>, <<"slice">>,
            <<"slice", "slice", "slice", "slice">>, <<"slice_start", "slice_end">>,
            <<"idr", "idr">>, <<"slice", "unsupported">> >>
Mixed ==
  FlattenSeq([i \in DOMAIN Pictures |->
    [k \in DOMAIN Pictures[i] |-> [unit |-> i, kind |-> Pictures[i][k]]]])

TwoLocals == <<"l1", "l2">>

--------------------------------------------------------------------------
(* The properties of the parts *)

\* Signaling: no candidate before the offer and none twice, no local candidate
\* lost between the callbacks and the socket, and remote ones given to the peer
\* with the answer, and only then.
CandidatesInOrder ==
  part \in {"signaling", "keepalive"} =>
    S!TypeOK /\ S!OfferFirst /\ S!CandidatesKept /\ S!RemoteKept

\* ClientAuth: of the requests that are refused together one logs in, and none is
\* denied because of another's login.
OneLoginServesAll ==
  part = "login" => A!TypeOK /\ A!OneLoginEach /\ A!DeniedByDevice

\* RtpReceive: pictures go to the decoder whole, in order and once, and none is
\* predicted from one that was lost.
UnitsInChain == TypeOK /\ PredictedFromWhole /\ InOrderOnce

\* VideoPipeline: what an observer is shown was decoded whole, after the input it
\* asked to see.
ShownWhole ==
  part = "pipeline" => V!TypeOK /\ V!ShownWhole /\ V!ObservedAfterInput
==============================================================================
