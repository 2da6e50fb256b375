----------------------------- MODULE RtpReceive -----------------------------
(***************************************************************************)
(* From RTP packets to access units of one reference chain                 *)
(* (internal/video/depacketizer.go and Pipeline.receive of pipeline.go).   *)
(*                                                                         *)
(* The device sends pictures as packets that the network loses, repeats    *)
(* and reorders.  The depacketizer collects the packets of one timestamp   *)
(* and emits an access unit when it holds an unbroken run of them up to    *)
(* the marker; it flags a unit that may not continue the one before.  The  *)
(* pipeline drops every unit that does not continue a chain an IDR began.  *)
(***************************************************************************)
EXTENDS Integers, Sequences, FiniteSets, SequencesExt

CONSTANTS
  Stream,      \* the packets sent: the picture and the payload of each
  FirstSeq,    \* sequence number and timestamp of the first packet
  FirstTime,
  SeqSpace,    \* 2^16 and 2^32 in the code
  TimeSpace,
  MaxPackets,  \* packets kept for one unit
  Window,      \* bound on packets in flight
  MaxCopies    \* bound on repeated deliveries

\* A parameter packet (STAP-A of SPS and PPS), whole pictures or slices, their
\* fragments (FU-A), and a NAL type nobody asked for.
Kinds == {"params", "idr", "slice", "idr_start", "idr_part", "idr_end",
          "slice_start", "slice_part", "slice_end", "unsupported"}

Coded == {"idr", "idr_end", "slice", "slice_end"}

\* Pictures follow each other, and each has something to decode.
ASSUME StreamAssumption ==
  /\ Stream \in Seq([unit: Nat \ {0}, kind: Kinds])
  /\ \A j, k \in DOMAIN Stream :
       /\ j <= k => Stream[j].unit <= Stream[k].unit
       /\ k = j + 1 => Stream[k].unit <= Stream[j].unit + 1
  /\ \A j \in DOMAIN Stream :
       \E k \in DOMAIN Stream :
         Stream[k].unit = Stream[j].unit /\ Stream[k].kind \in Coded
ASSUME BoundsAssumption ==
  /\ {FirstSeq, FirstTime, Window, MaxCopies} \subseteq Nat
  /\ {SeqSpace, TimeSpace, MaxPackets} \subseteq Nat \ {0}

\* Numbers wrap, but do not come round to where they began: as many packets as
\* there are numbers, lost one after the other, look as if none were.
ASSUME WrapAssumption ==
  /\ Len(Stream) < SeqSpace
  /\ \A k \in DOMAIN Stream : 2 * Stream[k].unit <= TimeSpace

VARIABLES
  sent,      \* packets sent so far
  flight,    \* packets in flight
  copies,    \* repeated deliveries so far
  rx,        \* the depacketizer
  chain, synced,  \* Pipeline.chain and Pipeline.synced
  accepted   \* ghost: units handed to the decoder, with their chain

vars == <<sent, flight, copies, rx, chain, synced, accepted>>

\* The packets in the order they are sent; the last of a picture has the marker.
Ends(k) == k = Len(Stream) \/ Stream[k + 1].unit # Stream[k].unit
Packets ==
  [k \in DOMAIN Stream |->
     [unit |-> Stream[k].unit, kind |-> Stream[k].kind, marker |-> Ends(k),
      ts |-> (FirstTime + Stream[k].unit) % TimeSpace,
      seq |-> (FirstSeq + k) % SeqSpace]]

--------------------------------------------------------------------------
(* The depacketizer *)

\* Signed comparison of wrapping timestamps.
After(a, b) == (a - b) % TimeSpace \in 1 .. TimeSpace \div 2 - 1

NewReceiver == [open |-> FALSE, ts |-> 0, packets |-> {}, params |-> FALSE,
                have |-> FALSE, lastSeq |-> 0, lastTs |-> 0, gap |-> FALSE]

\* Mutant of Ignored: repetitions of a finished unit are not looked for.
IgnoredWhileOpen(d, p) ==
  \/ d.open /\ After(d.ts, p.ts)
  \/ d.open /\ d.ts = p.ts /\ \E q \in d.packets : q.seq = p.seq

\* Late and repeated packets change nothing.
Ignored(d, p) ==
  \/ d.have /\ ~After(p.ts, d.lastTs)
  \/ d.open /\ After(d.ts, p.ts)
  \/ d.open /\ d.ts = p.ts /\ \E q \in d.packets : q.seq = p.seq

\* A packet of another timestamp starts a unit; one that was open is lost.
Opened(d, p) ==
  IF d.open /\ d.ts = p.ts THEN d
  ELSE [d EXCEPT !.open = TRUE, !.ts = p.ts, !.packets = {}, !.gap = @ \/ d.open]

Dropped(d) == [d EXCEPT !.open = FALSE, !.packets = {}, !.gap = TRUE]

\* orderedPackets: the packets up to the marker, in order, when there is no
\* hole and the first is not the middle of a fragmented picture; else empty.
Ordered(set) ==
  LET m == CHOOSE p \in set : p.marker
      Behind(p) == (m.seq - p.seq) % SeqSpace
      near == {p \in set : Behind(p) < MaxPackets}
      n == Cardinality(near)
      run == [i \in 1 .. n |-> CHOOSE p \in near : Behind(p) = n - i]
  IN IF /\ {Behind(p) : p \in near} = 0 .. n - 1
        /\ run[1].kind \notin {"idr_part", "idr_end", "slice_part", "slice_end"}
     THEN run ELSE <<>>

\* assemble: the positions at which it fails.  Fragments of one picture follow
\* each other from the first to the last, with nothing between them.
Opens(type) == IF type = "idr" THEN {"idr_start", "idr_part"}
                               ELSE {"slice_start", "slice_part"}
Fragments(type) == IF type = "idr" THEN {"idr_part", "idr_end"}
                                   ELSE {"slice_part", "slice_end"}
Broken(run) ==
  {i \in 1 .. Len(run) + 1 :
     LET inside == i > 1 /\ run[i-1].kind \in Opens("idr") \cup Opens("slice")
     IN IF i > Len(run) THEN inside
        ELSE \/ run[i].kind = "unsupported"
             \/ \E type \in {"idr", "slice"} :
                  /\ run[i].kind \in Fragments(type)
                  /\ ~(i > 1 /\ run[i-1].kind \in Opens(type))
             \/ inside /\ run[i].kind \notin Fragments("idr") \cup Fragments("slice")}

\* What a run becomes: the unit, the parameters known afterwards, or a failure.
\* Parameter sets met before a failure are kept.
Assemble(d, run) ==
  LET ok == Broken(run) = {}
      read == IF ok THEN Len(run) ELSE Min(Broken(run)) - 1
      Has(kinds) == \E i \in 1 .. Len(run) : run[i].kind \in kinds
      params == d.params \/ \E i \in 1 .. read : run[i].kind = "params"
      key == Has({"idr", "idr_end"})
  IN [ok |-> ok, params |-> params,
      unit |-> [unit |-> run[1].unit, first |-> run[1].seq,
                last |-> run[Len(run)].seq, size |-> Len(run), key |-> key,
                decodable |-> params /\ (key \/ Has({"slice", "slice_end"})),
                discontinuity |-> \/ d.gap
                                  \/ d.have /\ run[1].seq # (d.lastSeq + 1) % SeqSpace]]

\* Push: the receiver afterwards, and "nothing", "error" or a unit.
Nothing(d) == [rx |-> d, out |-> "nothing"]
Failed(d)  == [rx |-> d, out |-> "error"]
Push(d, p) ==
  LET o == Opened(d, p)
      lost == d.open /\ d.ts # p.ts
      held == [o EXCEPT !.packets = @ \cup {p}]
      marked == \E q \in held.packets : q.marker
      run == Ordered(held.packets)
      a == Assemble(held, run)
  IN IF Ignored(d, p) THEN Nothing(d)
     ELSE IF Cardinality(o.packets) >= MaxPackets THEN Failed(Dropped(o))
     ELSE IF ~marked THEN IF lost THEN Failed(held) ELSE Nothing(held)
     ELSE IF run = <<>> THEN Nothing(held)
     ELSE IF ~a.ok THEN Failed([Dropped(held) EXCEPT !.params = a.params])
     ELSE [out |-> "unit", unit |-> a.unit,
           rx |-> [held EXCEPT !.open = FALSE, !.packets = {}, !.gap = FALSE,
                     !.params = a.params, !.have = TRUE,
                     !.lastSeq = a.unit.last, !.lastTs = held.ts]]

--------------------------------------------------------------------------

\* What the decoder is handed.
InChain(u, c) == [unit |-> u.unit, size |-> u.size, key |-> u.key, chain |-> c]

\* Mutant of Receive: only an error breaks the chain.
ReceiveUnbroken(p) ==
  LET r == Push(rx, p)
      begins == r.out = "unit" /\ r.unit.decodable /\ r.unit.key
      takes == begins \/ (r.out = "unit" /\ r.unit.decodable /\ synced)
  IN /\ rx' = r.rx
     /\ chain' = IF r.out = "error" THEN chain + 1 ELSE chain
     /\ synced' = (begins \/ (synced /\ r.out # "error"))
     /\ accepted' = IF takes THEN Append(accepted, InChain(r.unit, chain')) ELSE accepted

\* Pipeline.receive: errors and flagged units break the chain; after that only
\* a decodable IDR begins one, and other units need one.
Receive(p) ==
  LET r == Push(rx, p)
      breaks == r.out = "error" \/ (r.out = "unit" /\ r.unit.discontinuity)
      begins == r.out = "unit" /\ r.unit.decodable /\ r.unit.key
      takes == \/ begins
               \/ r.out = "unit" /\ r.unit.decodable /\ synced /\ ~breaks
  IN /\ rx' = r.rx
     /\ chain' = IF breaks THEN chain + 1 ELSE chain
     /\ synced' = (begins \/ (synced /\ ~breaks))
     /\ accepted' = IF takes THEN Append(accepted, InChain(r.unit, chain')) ELSE accepted

Init ==
  /\ sent = 0 /\ flight = {} /\ copies = 0
  /\ rx = NewReceiver /\ chain = 1 /\ synced = FALSE
  /\ accepted = <<>>

Send ==
  /\ sent < Len(Packets) /\ Cardinality(flight) < Window
  /\ sent' = sent + 1
  /\ flight' = flight \cup {sent'}
  /\ UNCHANGED <<copies, rx, chain, synced, accepted>>

Lose(k) ==
  /\ flight' = flight \ {k}
  /\ UNCHANGED <<sent, copies, rx, chain, synced, accepted>>

\* A packet arrives, and may arrive again.
Deliver(k) ==
  /\ Receive(Packets[k])
  /\ \/ flight' = flight \ {k} /\ copies' = copies
     \/ copies < MaxCopies /\ copies' = copies + 1 /\ flight' = flight
  /\ sent' = sent

Next == Send \/ \E k \in flight : Lose(k) \/ Deliver(k)

Spec == Init /\ [][Next]_vars

--------------------------------------------------------------------------
(* Properties *)

\* Types; the packets held are of one picture, no more than allowed.
TypeOK ==
  /\ sent \in 0 .. Len(Packets) /\ flight \subseteq 1 .. sent
  /\ copies \in 0 .. MaxCopies
  /\ rx.packets \subseteq ToSet(Packets)
  /\ \A p, q \in rx.packets : p.unit = q.unit /\ (p.seq = q.seq => p = q)
  /\ rx.open = (rx.packets # {})
  /\ Cardinality(rx.packets) <= MaxPackets
  /\ chain \in Nat \ {0} /\ synced \in BOOLEAN

Of(i) == {k \in DOMAIN Stream : Stream[k].unit = i}
Whole(u) == u.size = Cardinality(Of(u.unit))

\* A unit that is not an IDR reaches the decoder only whole, and right after the
\* unit it was predicted from, whatever was lost, repeated or reordered in
\* between (pipeline.go:118, depacketizer.go:135).
PredictedFromWhole ==
  \A i \in DOMAIN accepted : ~accepted[i].key =>
    /\ Whole(accepted[i])
    /\ i > 1 /\ accepted[i-1].chain = accepted[i].chain
    /\ accepted[i].unit = accepted[i-1].unit + 1

\* No picture is handed over twice or after a later one, across the wrap of
\* sequence numbers and timestamps (depacketizer.go:82, "fence duplicates/late
\* packets, including wrap").
InOrderOnce ==
  \A i, j \in DOMAIN accepted : i < j => accepted[i].unit < accepted[j].unit

\* What the comment on breakChain says (pipeline.go:146, "Only a complete IDR
\* may reestablish references").
OnlyWholeIDRRecovers ==
  \A i \in DOMAIN accepted : accepted[i].key => Whole(accepted[i])
=============================================================================
