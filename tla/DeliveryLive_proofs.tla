------------------------ MODULE DeliveryLive_proofs ------------------------
(***************************************************************************)
(* Proofs about the live lane of ConnectorDelivery: its buffer, its turns  *)
(* with the durable lane, and the newest Git status of every watch.        *)
(*                                                                         *)
(* The argument for the statuses: a status that is neither a hint nor in   *)
(* the awaited batch has been processed.  A batch carries every hint it    *)
(* took (TakenInv), so its answer stands for all of them, and a batch that *)
(* fails puts back a hint only where no newer one has come (GitInv).       *)
(***************************************************************************)
EXTENDS ConnectorDelivery_proofs, Induction

-----------------------------------------------------------------------------
(* The inductive invariant.                                                *)

Payload(keys) == [key : keys, n : Nat]

\* A map of overflow hints, each under its own key.
HintMap(h) ==
    /\ IsFiniteSet(DOMAIN h) /\ DOMAIN h \subseteq Keys
    /\ \A k \in DOMAIN h : h[k] \in Payload({k})

LiveFlight == flight # NoFlight /\ flight.request.kind = "live"

LiveRequest(r) ==
    /\ r.first \in Nat \ {0} /\ r.last \in Nat /\ r.pos \in Nat
    /\ r.first - 1 <= r.pos /\ r.pos <= r.last /\ r.first <= r.last
    /\ \A s \in r.first .. r.last : r.events[s] \in Payload(Keys)

LiveTypes ==
    /\ counts = [live |-> counts.live, exits |-> counts.exits,
                 restarts |-> counts.restarts]
    /\ counts.live \in Nat
    /\ liveQ \in Seq(Payload(Sessions)) /\ HintMap(hints)
    /\ newest \in [Keys -> Nat] /\ shown \in [Keys -> Nat]
    /\ phase # "up" => flight = NoFlight
    /\ \A r \in Underway : r.kind = "live" => LiveRequest(r)

\* What the awaited live batch took out of the buffer.
TakenInv ==
    LiveFlight =>
        LET r == flight.request
        IN  /\ HintMap(flight.hints) /\ flight.queued \in Seq(Payload(Sessions))
            /\ Len(flight.queued) <= BatchLimit
            /\ flight.queued # <<>> \/ DOMAIN flight.hints # {}
            /\ \A k \in DOMAIN flight.hints :
                   \E s \in r.first .. r.last : r.events[s] = flight.hints[k]
            /\ \/ flight.ack \in {NoAck, 0}
               \/ flight.ack = r.last /\ r.pos = r.last
            /\ \A s \in r.first .. r.pos :
                   shown[r.events[s].key] >= r.events[s].n

\* The buffer and what the awaited batch may put back into it.
BufferInv ==
    /\ Len(liveQ) <= LiveLimit + BatchLimit
    /\ LiveFlight => Len(liveQ) + Len(flight.queued) <= LiveLimit + BatchLimit

\* A batch that passed the other lane by has left that lane its turn.
TurnInv ==
    /\ passed = [durable |-> passed.durable, live |-> passed.live]
    /\ passed.durable \in {0, 1} /\ passed.live \in {0, 1}
    /\ phase # "down" /\ passed.durable = 1 =>
           /\ preferLive = TRUE /\ (HasLive \/ LiveFlight)
           /\ flight # NoFlight => LiveFlight
    /\ phase # "down" /\ passed.live = 1 =>
           preferLive = FALSE /\ Pending(journal) # {} /\ ~LiveFlight

\* The newest status of a watch is a hint, or on its way, or processed.
GitInv ==
    phase # "down" =>
        \A w \in Watches :
            /\ w \in DOMAIN hints => hints[w].n = newest[w]
            /\ LiveFlight /\ w \in DOMAIN flight.hints /\ w \notin DOMAIN hints =>
                   flight.hints[w].n = newest[w]
            /\ newest[w] > 0 =>
                   \/ w \in DOMAIN hints
                   \/ LiveFlight /\ w \in DOMAIN flight.hints
                   \/ shown[w] >= newest[w]

LiveInv == LiveTypes /\ TakenInv /\ BufferInv /\ TurnInv /\ GitInv
-----------------------------------------------------------------------------
(* Steps that leave the lane alone.                                        *)

\* A request that goes on stays well formed.
LEMMA LikeLive ==
    ASSUME LiveTypes, \A r \in Underway' : \E q \in Underway : Like(r, q)
    PROVE  \A r \in Underway' : r.kind = "live" => LiveRequest(r)
<1> SUFFICES ASSUME NEW r \in Underway', r.kind = "live" PROVE LiveRequest(r)
  OBVIOUS
<1>1. PICK q \in Underway : Like(r, q)
  OBVIOUS
<1>2. LiveRequest(q)
  BY <1>1 DEF LiveTypes, Like
<1> QED
  BY <1>1, <1>2 DEF Like, LiveRequest

\* The steps that change at most how far the awaited request has come.
Aside ==
    \/ EmitDurable \/ Reply \/ LegacyReply \/ ServerRestart \/ AcceptFragment
    \/ AcceptLateFragment \/ LateCommitted \/ TransferExpires

\* Steps aside of the lanes leave the flush that is under way as it was, but for
\* how far its request has got.
LEMMA AsideFlight ==
    ASSUME IInv, TypeInv, Aside, flight # NoFlight
    PROVE  LET r == flight.request
               q == flight'.request
           IN  /\ flight' # NoFlight
               /\ flight'.hints = flight.hints /\ flight'.queued = flight.queued
               /\ q.kind = r.kind /\ q.first = r.first /\ q.last = r.last
               /\ q.events = r.events /\ q.pos = r.pos
               /\ \/ flight'.ack \in {flight.ack, 0}
                  \/ flight'.ack = r.last /\ r.pos = r.last
<1>1. FlightShape(flight) /\ RequestShape(flight.request)
  BY DEF TypeInv, IInv, FlightInv, RequestInv
<1>2. CASE flight' = flight
  BY <1>2
<1>3. CASE AcceptFragment
  <2>1. PICK n : flight' = [flight EXCEPT !.request =
                                [flight.request EXCEPT !.frag = n]]
    BY <1>3 DEF AcceptFragment
  <2> QED
    BY <1>1, <2>1 DEF FlightShape, RequestShape, NoFlight
<1>4. CASE flight' # flight /\ ~AcceptFragment
  <2>1. \/ flight' = [flight EXCEPT !.alive = FALSE]
        \/ flight' = [flight EXCEPT !.ack = 0]
        \/ /\ flight' = [flight EXCEPT !.ack = flight.request.last]
           /\ flight.request.pos = flight.request.last
    BY <1>4 DEF Aside, EmitDurable, Reply, LegacyReply, ServerRestart,
       AcceptLateFragment, LateCommitted, TransferExpires
  <2> QED
    BY <1>1, <2>1 DEF FlightShape, NoFlight
<1> QED
  BY <1>2, <1>3, <1>4

\* So they keep the invariant of the lanes.
LEMMA AsideStep == ASSUME IInv, TypeInv, LiveInv, Aside PROVE LiveInv'
<1>1. /\ UNCHANGED <<preferLive, liveQ, hints, newest, shown, passed, phase>>
      /\ counts' = counts \/ counts' = [counts EXCEPT !.restarts = @ + 1]
  BY DEF Aside, EmitDurable, Reply, LegacyReply, ServerRestart, AcceptFragment,
     AcceptLateFragment, LateCommitted, TransferExpires, lanes, server, memory
<1>2. flight = NoFlight => flight' = NoFlight
  BY DEF Aside, EmitDurable, Reply, LegacyReply, ServerRestart, AcceptFragment,
     AcceptLateFragment, LateCommitted, TransferExpires, Awaited
<1>3. Pending(journal) # {} => Pending(journal)' # {}
  <2>1. CASE EmitDurable
    BY <2>1 DEF EmitDurable, Enqueue, Pending, IInv, JournalInv
  <2>2. CASE ~EmitDurable
    BY <2>2 DEF Aside, Reply, LegacyReply, ServerRestart, AcceptFragment,
       AcceptLateFragment, LateCommitted, TransferExpires, disk
  <2> QED
    BY <2>1, <2>2
<1>4. LiveTypes'
  <2>1. \A r \in Underway' : \E q \in Underway : Like(r, q)
    BY NoNewRequest DEF Aside, Bystander
  <2>2. \A r \in Underway' : r.kind = "live" => LiveRequest(r)
    BY <2>1, LikeLive DEF LiveInv
  <2>3. /\ counts' = [live |-> counts'.live, exits |-> counts'.exits,
                      restarts |-> counts'.restarts]
        /\ counts'.live = counts.live
    BY <1>1 DEF LiveInv, LiveTypes
  <2> QED
    BY <1>1, <1>2, <2>2, <2>3 DEF LiveInv, LiveTypes, HintMap, LiveRequest
<1>5. CASE flight = NoFlight
  BY <1>1, <1>2, <1>3, <1>4, <1>5 DEF LiveInv, TakenInv, BufferInv, TurnInv, GitInv,
     LiveFlight, HasLive
<1>6. CASE flight # NoFlight
  <2> DEFINE r == flight.request
             q == flight'.request
  <2>1. /\ flight' # NoFlight
        /\ flight'.hints = flight.hints /\ flight'.queued = flight.queued
        /\ q.kind = r.kind /\ q.first = r.first /\ q.last = r.last
        /\ q.events = r.events /\ q.pos = r.pos
        /\ \/ flight'.ack \in {flight.ack, 0}
           \/ flight'.ack = r.last /\ r.pos = r.last
    BY <1>6, AsideFlight
  <2>2. LiveFlight' <=> LiveFlight
    BY <1>6, <2>1 DEF LiveFlight
  <2>3. TakenInv'
    BY <1>1, <2>1, <2>2 DEF LiveInv, TakenInv, HintMap
  <2>4. BufferInv' /\ GitInv'
    BY <1>1, <2>1, <2>2 DEF LiveInv, BufferInv, GitInv
  <2>5. TurnInv'
    BY <1>1, <1>3, <1>6, <2>1, <2>2 DEF LiveInv, TurnInv, HasLive
  <2> QED
    BY <1>4, <2>3, <2>4, <2>5 DEF LiveInv
<1> QED
  BY <1>5, <1>6
-----------------------------------------------------------------------------
(* The buffer.                                                             *)

\* The maximum of a set of positions is one of them.
LEMMA MaxIsIn ==
    ASSUME NEW n \in Nat, NEW S, S \subseteq 1 .. n, S # {}
    PROVE  Max(S) \in S
<1> DEFINE T == {n - i : i \in S}
<1>1. T \subseteq Nat /\ T # {}
  <2>1. ASSUME NEW i \in S PROVE n - i \in Nat
    OBVIOUS
  <2> QED
    BY <2>1
<1>2. PICK x \in T : \A y \in T : x <= y
  <2> HIDE DEF T
  <2> QED
    BY <1>1, Least
<1>3. PICK i \in S : x = n - i
  OBVIOUS
<1>4. ASSUME NEW j \in S PROVE i >= j
  <2>1. n - j \in T /\ i \in 1 .. n /\ j \in 1 .. n
    OBVIOUS
  <2>2. n - i <= n - j
    BY <1>2, <1>3, <2>1
  <2> QED
    BY <2>1, <2>2
<1> QED
  BY <1>4 DEF Max

\* What the numbers up to n name is a finite set.
LEMMA NamesFinite ==
    ASSUME NEW n \in Nat, NEW T, NEW f \in [1 .. n -> T]
    PROVE  IsFiniteSet({f[i] : i \in 1 .. n})
<1>1. IsFiniteSet(1 .. n)
  BY FS_Interval
<1>2. f \in Surjection(1 .. n, {f[i] : i \in 1 .. n})
  BY DEF Surjection
<1> QED
  BY <1>1, <1>2, FS_Surjection

\* Moving session envelopes into the hints touches no other hint.
LEMMA DisplacedHints ==
    ASSUME NEW q \in Seq(Payload(Sessions)), NEW n \in 0 .. Len(q),
           NEW h, HintMap(h)
    PROVE  LET D == Displaced(q, n, h)
           IN  /\ HintMap(D)
               /\ n > 0 => DOMAIN D # {}
               /\ \A w \in Watches : /\ w \in DOMAIN D <=> w \in DOMAIN h
                                     /\ w \in DOMAIN h => D[w] = h[w]
<1> DEFINE K == {q[i].key : i \in 1 .. n}
           Of(k) == {i \in 1 .. n : q[i].key = k}
           D == Displaced(q, n, h)
<1>1. n \in Nat /\ Len(q) \in Nat /\ \A i \in 1 .. n : q[i] \in Payload(Sessions)
  <2>1. Len(q) \in Nat
    BY LenProperties
  <2> QED
    BY <2>1, ElementOfSeq
<1>2. D = [k \in DOMAIN h \cup K |-> IF Of(k) = {} THEN h[k] ELSE q[Max(Of(k))]]
  BY DEF Displaced
<1>3. IsFiniteSet(K) /\ K \subseteq Sessions
  <2>1. PICK f : f = [i \in 1 .. n |-> q[i].key]
    OBVIOUS
  <2>2. f \in [1 .. n -> Sessions] /\ K = {f[i] : i \in 1 .. n}
    BY <1>1, <2>1 DEF Payload
  <2> QED
    BY <1>1, <2>2, NamesFinite
<1>4. IsFiniteSet(DOMAIN D) /\ DOMAIN D \subseteq Keys
  BY <1>2, <1>3, FS_Union DEF HintMap, Keys
<1>5. ASSUME NEW k \in DOMAIN D PROVE D[k] \in Payload({k})
  <2>1. CASE Of(k) = {}
    <3>1. k \in DOMAIN h
      BY <1>2, <2>1
    <3> QED
      BY <1>2, <2>1, <3>1 DEF HintMap
  <2>2. CASE Of(k) # {}
    <3>1. Of(k) \subseteq 1 .. n
      OBVIOUS
    <3>2. Max(Of(k)) \in Of(k)
      <4> HIDE DEF Of
      <4> QED
        BY <1>1, <2>2, <3>1, MaxIsIn
    <3>3. PICK i \in 1 .. n : i = Max(Of(k)) /\ q[i].key = k
      BY <3>2
    <3>4. D[k] = q[i]
      BY <1>2, <2>2, <3>3
    <3> QED
      BY <1>1, <3>3, <3>4 DEF Payload
  <2> QED
    BY <2>1, <2>2
<1>6. n > 0 => DOMAIN D # {}
  <2>1. n > 0 => q[1].key \in K
    BY <1>1
  <2> QED
    BY <1>2, <2>1
<1>7. ASSUME NEW w \in Watches
      PROVE  /\ w \in DOMAIN D <=> w \in DOMAIN h
             /\ w \in DOMAIN h => D[w] = h[w]
  <2>1. w \notin K /\ Of(w) = {}
    BY <1>1, <1>3, DeliveryAssumption
  <2> QED
    BY <1>2, <2>1
<1> QED
  BY <1>4, <1>5, <1>6, <1>7 DEF HintMap
\* enqueue() of a live payload keeps the invariant.
LEMMA EmitLive ==
    ASSUME IInv, TypeInv, LiveInv, NEW k \in Keys, NewLive(k),
           liveQ' \in Seq(Payload(Sessions)), HintMap(hints'),
           Len(liveQ') <= Len(liveQ) \/ Len(liveQ') <= LiveLimit,
           liveQ' # <<>> \/ DOMAIN hints' # {},
           \A w \in Watches :
               IF w = k
                 THEN w \in DOMAIN hints' /\ hints'[w].n = counts.live + 1
                 ELSE /\ w \in DOMAIN hints' <=> w \in DOMAIN hints
                      /\ w \in DOMAIN hints => hints'[w] = hints[w]
    PROVE  LiveInv'
<1>1. /\ UNCHANGED <<journal, phase, flight, late, preferLive, shown, passed>>
      /\ phase = "up"
      /\ counts' = [counts EXCEPT !.live = @ + 1]
      /\ newest' = [newest EXCEPT ![k] = counts.live + 1]
  BY DEF NewLive, disk, server, memory
<1>2. /\ Underway' = Underway /\ (LiveFlight' <=> LiveFlight) /\ HasLive'
  BY <1>1 DEF Underway, LiveFlight, HasLive
<1>3. /\ counts' = [live |-> counts'.live, exits |-> counts'.exits,
                    restarts |-> counts'.restarts]
      /\ counts'.live = counts.live + 1
  BY <1>1 DEF LiveInv, LiveTypes
<1>4. LiveTypes'
  <2>1. newest' \in [Keys -> Nat] /\ counts'.live \in Nat
    BY <1>1, <1>3 DEF LiveInv, LiveTypes
  <2>2. HintMap(hints)'
    BY DEF HintMap
  <2> QED
    BY <1>1, <1>2, <1>3, <2>1, <2>2 DEF LiveInv, LiveTypes, LiveRequest
<1>5. TakenInv'
  BY <1>1, <1>2 DEF LiveInv, TakenInv, HintMap
<1>6. BufferInv'
  <2>1. /\ Len(liveQ) \in Nat /\ Len(liveQ') \in Nat
        /\ LiveLimit \in Nat /\ BatchLimit \in Nat
    BY LenProperties, DeliveryAssumption, BatchLimitAssumption
    DEF LiveInv, LiveTypes
  <2>2. Len(liveQ') <= LiveLimit + BatchLimit
    BY <2>1 DEF LiveInv, BufferInv
  <2>3. ASSUME LiveFlight
        PROVE  Len(liveQ') + Len(flight.queued) <= LiveLimit + BatchLimit
    <3>1. Len(flight.queued) \in Nat /\ Len(flight.queued) <= BatchLimit
      BY <2>3, LenProperties DEF LiveInv, TakenInv
    <3> QED
      BY <2>1, <2>3, <3>1 DEF LiveInv, BufferInv
  <2> QED
    BY <1>1, <1>2, <2>2, <2>3 DEF BufferInv
<1>7. TurnInv'
  BY <1>1, <1>2 DEF LiveInv, TurnInv
<1>8. GitInv'
  <2> SUFFICES ASSUME NEW w \in Watches
               PROVE  /\ w \in DOMAIN hints' => hints'[w].n = newest'[w]
                      /\ LiveFlight /\ w \in DOMAIN flight.hints
                             /\ w \notin DOMAIN hints' =>
                             flight.hints[w].n = newest'[w]
                      /\ newest'[w] > 0 =>
                             \/ w \in DOMAIN hints'
                             \/ LiveFlight /\ w \in DOMAIN flight.hints
                             \/ shown[w] >= newest'[w]
    BY <1>1, <1>2 DEF GitInv
  <2>1. w \in Keys
    BY DEF Keys
  <2>2. CASE w = k
    BY <1>1, <2>1, <2>2 DEF LiveInv, LiveTypes
  <2>3. CASE w # k
    <3>1. newest'[w] = newest[w]
      BY <1>1, <2>1, <2>3 DEF LiveInv, LiveTypes
    <3> QED
      BY <1>1, <2>3, <3>1 DEF LiveInv, GitInv
  <2> QED
    BY <2>2, <2>3
<1> QED
  BY <1>4, <1>5, <1>6, <1>7, <1>8 DEF LiveInv

\* A session envelope is appended, what exceeds the limit becomes hints.
LEMMA EmitSessionStep ==
    ASSUME IInv, TypeInv, LiveInv, NEW k \in Sessions, EmitSession(k)
    PROVE  LiveInv'
<1> DEFINE p == [key |-> k, n |-> counts.live + 1]
           q == Append(liveQ, p)
           excess == Len(q) - LiveLimit
<1>1. /\ NewLive(k)
      /\ liveQ' = Displace(q, hints).queue /\ hints' = Displace(q, hints).hints
  BY DEF EmitSession
<1>2. liveQ \in Seq(Payload(Sessions)) /\ p \in Payload(Sessions)
  BY DEF LiveInv, LiveTypes, Payload
<1>3. q \in Seq(Payload(Sessions)) /\ Len(q) = Len(liveQ) + 1 /\ q # <<>>
      /\ Len(liveQ) \in Nat
  BY <1>2, AppendProperties, LenProperties
<1>4. LiveLimit \in Nat \ {0}
  BY DeliveryAssumption
<1>5. HintMap(hints)
  BY DEF LiveInv, LiveTypes
<1>6. k \in Keys /\ \A w \in Watches : w # k
  BY DeliveryAssumption DEF Keys
<1> HIDE DEF q
<1>7. CASE excess <= 0
  <2>1. liveQ' = q /\ hints' = hints
    BY <1>1, <1>7 DEF Displace
  <2>2. Len(liveQ') <= LiveLimit
    BY <1>3, <1>4, <1>7, <2>1
  <2> QED
    BY <1>1, <1>3, <1>5, <1>6, <2>1, <2>2, EmitLive
<1>8. CASE ~(excess <= 0)
  <2>1. liveQ' = SubSeq(q, excess + 1, Len(q)) /\ hints' = Displaced(q, excess, hints)
    BY <1>1, <1>8 DEF Displace
  <2>2. excess \in 1 .. Len(q) /\ Len(q) \in Nat /\ excess + 1 \in Int
    BY <1>3, <1>4, <1>8
  <2>3. \A i \in excess + 1 .. Len(q) : q[i] \in Payload(Sessions)
    <3>1. \A i \in excess + 1 .. Len(q) : i \in 1 .. Len(q)
      BY <2>2
    <3> QED
      BY <1>3, <3>1, ElementOfSeq
  <2>4. liveQ' \in Seq(Payload(Sessions)) /\ Len(liveQ') = LiveLimit
    <3>1. /\ liveQ' \in Seq(Payload(Sessions))
          /\ Len(liveQ') = IF excess + 1 <= Len(q)
                             THEN Len(q) - (excess + 1) + 1 ELSE 0
      <4> HIDE DEF excess
      <4> QED
        BY <2>1, <2>2, <2>3, SubSeqProperties
    <3> QED
      BY <1>3, <1>4, <2>2, <3>1
  <2>5. /\ HintMap(hints') /\ DOMAIN hints' # {}
        /\ \A w \in Watches : /\ w \in DOMAIN hints' <=> w \in DOMAIN hints
                              /\ w \in DOMAIN hints => hints'[w] = hints[w]
    <3> HIDE DEF excess
    <3>1. excess \in 0 .. Len(q) /\ excess > 0
      BY <2>2
    <3> QED
      BY <1>3, <1>5, <2>1, <3>1, DisplacedHints
  <2> QED
    BY <1>1, <1>4, <1>6, <2>4, <2>5, EmitLive
<1> QED
  BY <1>7, <1>8

\* A Git status replaces the hint of its watch.
LEMMA EmitGitStep ==
    ASSUME IInv, TypeInv, LiveInv, NEW k \in Watches, EmitGit(k)
    PROVE  LiveInv'
<1> DEFINE p == [key |-> k, n |-> counts.live + 1]
<1>1. NewLive(k) /\ hints' = SetHint(hints, p) /\ liveQ' = liveQ
  BY DEF EmitGit
<1>2. hints' = [j \in DOMAIN hints \cup {k} |-> IF j = k THEN p ELSE hints[j]]
  BY <1>1 DEF SetHint
<1>3. HintMap(hints) /\ liveQ \in Seq(Payload(Sessions)) /\ k \in Keys
  BY DEF LiveInv, LiveTypes, Keys
<1>4. p \in Payload({k})
  BY DEF LiveInv, LiveTypes, Payload
<1>5. IsFiniteSet(DOMAIN hints')
  BY <1>2, <1>3, FS_AddElement DEF HintMap
<1>6. HintMap(hints')
  BY <1>2, <1>3, <1>4, <1>5 DEF HintMap
<1>7. \A w \in Watches :
          IF w = k
            THEN w \in DOMAIN hints' /\ hints'[w].n = counts.live + 1
            ELSE /\ w \in DOMAIN hints' <=> w \in DOMAIN hints
                 /\ w \in DOMAIN hints => hints'[w] = hints[w]
  BY <1>2
<1>8. DOMAIN hints' # {} /\ Len(liveQ') <= Len(liveQ)
  <2>1. Len(liveQ) \in Nat
    BY <1>3, LenProperties
  <2> QED
    BY <1>1, <1>2, <2>1
<1> QED
  BY <1>1, <1>3, <1>6, <1>7, <1>8, EmitLive
-----------------------------------------------------------------------------
(* Batches.                                                                *)

\* Listing a finite set meets every element of it.
LEMMA ListsAll ==
    ASSUME NEW S, IsFiniteSet(S)
    PROVE  /\ Cardinality(S) \in Nat
           /\ SetToSeq(S) \in [1 .. Cardinality(S) -> S]
           /\ \A x \in S : \E i \in 1 .. Cardinality(S) : SetToSeq(S)[i] = x
<1> DEFINE c == Cardinality(S)
<1>1. c \in Nat /\ ExistsBijection(1 .. c, S)
  BY FS_CardinalityType
<1>2. \E f \in [1 .. c -> S] : IsInjective(f)
  BY <1>1 DEF ExistsBijection, Bijection, Injection
<1>3. SetToSeq(S) \in [1 .. c -> S] /\ IsInjective(SetToSeq(S))
  BY <1>2 DEF SetToSeq
<1> HIDE DEF c
<1>4. PICK f : f = SetToSeq(S)
  OBVIOUS
<1>5. f \in Injection(1 .. c, S)
  BY <1>3, <1>4 DEF Injection
<1>6. IsFiniteSet(1 .. c) /\ Cardinality(1 .. c) = c
  BY <1>1, FS_Interval
<1>7. f \in Surjection(1 .. c, S)
  BY <1>5, <1>6, FS_Injection DEF c
<1>8. \A x \in S : \E i \in 1 .. c : f[i] = x
  BY <1>7 DEF Surjection
<1> QED
  BY <1>1, <1>3, <1>4, <1>8 DEF c

\* takeLiveEventBatch(): the batch P has every hint of H, and n envelopes.
BatchMade(H, n, taken, P) ==
    /\ taken \in Seq(Payload(Sessions)) /\ Len(taken) = n
    /\ Cardinality(H) \in Nat
    /\ P \in Seq(Payload(Keys)) /\ Len(P) = Cardinality(H) + n
    /\ \A k \in H : \E i \in 1 .. Len(P) : P[i] = hints[k]
    /\ HintMap([k \in H |-> hints[k]])
    /\ HintMap([k \in DOMAIN hints \ H |-> hints[k]])
    /\ SubSeq(liveQ, n + 1, Len(liveQ)) \in Seq(Payload(Sessions))
    /\ Len(SubSeq(liveQ, n + 1, Len(liveQ))) = Len(liveQ) - n

\* So it is, for whatever the loop takes.
LEMMA BatchFacts ==
    ASSUME LiveInv, NEW H \in SUBSET DOMAIN hints, NEW n \in 0 .. Len(liveQ),
           NEW taken, taken = SubSeq(liveQ, 1, n),
           NEW P, P = [i \in 1 .. Cardinality(H) |-> hints[SetToSeq(H)[i]]] \o taken
    PROVE  BatchMade(H, n, taken, P)
<1> DEFINE c == Cardinality(H)
           rest == SubSeq(liveQ, n + 1, Len(liveQ))
<1>1. liveQ \in Seq(Payload(Sessions)) /\ Len(liveQ) \in Nat /\ n \in Nat
      /\ HintMap(hints)
  BY LenProperties DEF LiveInv, LiveTypes
<1>2. \A i \in 1 .. Len(liveQ) : liveQ[i] \in Payload(Sessions)
  BY <1>1, ElementOfSeq
<1>3. taken \in Seq(Payload(Sessions)) /\ Len(taken) = n
  <2>1. \A i \in 1 .. n : liveQ[i] \in Payload(Sessions)
    BY <1>1, <1>2
  <2>2. 1 \in Int /\ n \in Int
    BY <1>1
  <2>3. /\ taken \in Seq(Payload(Sessions))
        /\ Len(taken) = IF 1 <= n THEN n - 1 + 1 ELSE 0
    BY <2>1, <2>2, SubSeqProperties
  <2> QED
    BY <1>1, <2>3
<1>4. rest \in Seq(Payload(Sessions)) /\ Len(rest) = Len(liveQ) - n
  <2>1. \A i \in n + 1 .. Len(liveQ) : liveQ[i] \in Payload(Sessions)
    BY <1>1, <1>2
  <2>2. n + 1 \in Int /\ Len(liveQ) \in Int
    BY <1>1
  <2>3. /\ rest \in Seq(Payload(Sessions))
        /\ Len(rest) = IF n + 1 <= Len(liveQ) THEN Len(liveQ) - (n + 1) + 1 ELSE 0
    BY <2>1, <2>2, SubSeqProperties
  <2> QED
    BY <1>1, <2>3
<1>5. IsFiniteSet(H) /\ IsFiniteSet(DOMAIN hints \ H)
  BY <1>1, FS_Subset DEF HintMap
<1>6. PICK f : f = SetToSeq(H)
  OBVIOUS
<1>7. /\ c \in Nat /\ f \in [1 .. c -> H]
      /\ \A x \in H : \E i \in 1 .. c : f[i] = x
  BY <1>5, <1>6, ListsAll
<1> HIDE DEF c
<1>8. PICK A : A = [i \in 1 .. c |-> hints[f[i]]]
  OBVIOUS
<1>9. A \in Seq(Payload(Keys)) /\ Len(A) = c
  <2>1. \A k \in H : hints[k] \in Payload(Keys)
    BY <1>1 DEF HintMap, Payload
  <2>2. A \in [1 .. c -> Payload(Keys)]
    BY <1>7, <1>8, <2>1
  <2>3. A \in Seq(Payload(Keys))
    BY <1>7, <2>2, SeqDef
  <2>4. Len(A) \in Nat /\ 1 .. Len(A) = 1 .. c
    BY <2>2, <2>3, LenProperties
  <2> QED
    BY <1>7, <2>3, <2>4
<1>10. taken \in Seq(Payload(Keys))
  <2>1. Payload(Sessions) \subseteq Payload(Keys)
    BY DEF Payload, Keys
  <2> QED
    BY <1>3, <2>1, SeqMonotonic
<1>11. P = A \o taken
  BY <1>6, <1>8 DEF c
<1>12. /\ P \in Seq(Payload(Keys)) /\ Len(P) = c + n
       /\ \A i \in 1 .. c : P[i] = A[i]
  <2>1. /\ P \in Seq(Payload(Keys)) /\ Len(P) = Len(A) + Len(taken)
        /\ \A i \in 1 .. Len(A) + Len(taken) :
               P[i] = IF i <= Len(A) THEN A[i] ELSE taken[i - Len(A)]
    <3>1. PICK S : S = Payload(Keys)
      OBVIOUS
    <3>2. A \in Seq(S) /\ taken \in Seq(S)
      BY <1>9, <1>10, <3>1
    <3>3. /\ A \o taken \in Seq(S) /\ Len(A \o taken) = Len(A) + Len(taken)
          /\ \A i \in 1 .. Len(A) + Len(taken) :
                 (A \o taken)[i] = IF i <= Len(A) THEN A[i] ELSE taken[i - Len(A)]
      BY ONLY <3>2, ConcatProperties
    <3> QED
      BY <1>11, <3>1, <3>3
  <2>2. Len(A) + Len(taken) = c + n
    BY <1>3, <1>9
  <2>3. \A i \in 1 .. c : i \in 1 .. c + n /\ i <= c
    BY <1>1, <1>7
  <2>4. \A i \in 1 .. c : P[i] = A[i]
    BY <1>9, <2>1, <2>2, <2>3
  <2> QED
    BY <2>1, <2>2, <2>4
<1>13. ASSUME NEW k \in H PROVE \E i \in 1 .. Len(P) : P[i] = hints[k]
  <2>1. PICK i \in 1 .. c : f[i] = k
    BY <1>7
  <2>2. i \in 1 .. c + n
    BY <1>1, <1>7
  <2>3. A[i] = hints[k]
    BY <1>8, <2>1
  <2>4. i \in 1 .. Len(P) /\ P[i] = hints[k]
    BY <1>12, <2>2, <2>3
  <2> QED
    BY <2>4
<1>14. /\ HintMap([k \in H |-> hints[k]])
       /\ HintMap([k \in DOMAIN hints \ H |-> hints[k]])
  BY <1>1, <1>5 DEF HintMap
<1> QED
  BY <1>3, <1>4, <1>7, <1>12, <1>13, <1>14 DEF c, BatchMade
\* A durable batch: the live lane has nothing to say against it.
LEMMA FlushDurableLive ==
    ASSUME IInv, TypeInv, NInv, LiveInv, FlushDurable PROVE LiveInv'
<1>1. /\ flight = NoFlight /\ phase = "up" /\ ~LiveDue
      /\ UNCHANGED <<journal, phase, preferLive, liveQ, hints, late, newest>>
      /\ UNCHANGED <<shown, passed, counts>>
  BY DEF FlushDurable, disk, lanes, server, memory
<1>2. PICK first, last, events :
          Launch(Request("durable", journal.epoch, first, last, events), <<>>, <<>>)
  BY DEF FlushDurable
<1>3. flight'.request.kind = "durable" /\ flight' # NoFlight
  BY <1>2 DEF Launch, Request, NoFlight
<1>4. ~LiveFlight /\ ~LiveFlight'
  BY <1>1, <1>3 DEF LiveFlight
<1>5. Underway' = Underway \cup {flight'.request}
  BY <1>1, <1>3 DEF Underway
<1>6. LiveTypes'
  BY <1>1, <1>3, <1>5 DEF LiveInv, LiveTypes, HintMap, LiveRequest
<1>7. TakenInv' /\ BufferInv' /\ GitInv'
  BY <1>1, <1>4 DEF LiveInv, TakenInv, BufferInv, GitInv
<1>8. passed.durable # 1
  BY <1>1, <1>4 DEF LiveDue, LiveInv, TurnInv
<1>9. TurnInv'
  BY <1>1, <1>4, <1>8 DEF LiveInv, TurnInv
<1> QED
  BY <1>6, <1>7, <1>9 DEF LiveInv

\* A live batch takes hints and envelopes out of the buffer.
LEMMA FlushLiveLive ==
    ASSUME IInv, TypeInv, NInv, LiveInv, FlushLive PROVE LiveInv'
<1>1. /\ flight = NoFlight /\ phase = "up"
      /\ Pending(journal) = {} \/ preferLive
      /\ UNCHANGED <<journal, phase, preferLive, late, newest>>
      /\ UNCHANGED <<shown, passed, counts>>
  BY DEF FlushLive, disk, server, memory
<1>2. PICK H \in SUBSET DOMAIN hints, n \in 0 .. Len(liveQ) :
          LET taken    == SubSeq(liveQ, 1, n)
              payloads == [i \in 1 .. Cardinality(H) |->
                               hints[SetToSeq(H)[i]]] \o taken
              size     == Len(payloads)
              r        == Request("live", liveEpoch, liveSeq + 1, liveSeq + size,
                                  [s \in liveSeq + 1 .. liveSeq + size |->
                                       payloads[s - liveSeq]])
          IN  /\ size \in 1 .. BatchLimit
              /\ Launch(r, [k \in H |-> hints[k]], taken)
              /\ hints' = [k \in DOMAIN hints \ H |-> hints[k]]
              /\ liveQ' = SubSeq(liveQ, n + 1, Len(liveQ))
  BY DEF FlushLive
<1>3. PICK taken : taken = SubSeq(liveQ, 1, n)
  OBVIOUS
<1>4. PICK P : P = [i \in 1 .. Cardinality(H) |-> hints[SetToSeq(H)[i]]] \o taken
  OBVIOUS
<1>5. PICK e : e = [s \in liveSeq + 1 .. liveSeq + Len(P) |-> P[s - liveSeq]]
  OBVIOUS
<1>6. PICK first, last : first = liveSeq + 1 /\ last = liveSeq + Len(P)
  OBVIOUS
<1>7. PICK r : r = Request("live", liveEpoch, first, last, e)
  OBVIOUS
<1>8. PICK h : h = [k \in H |-> hints[k]]
  OBVIOUS
<1>9. /\ Len(P) \in 1 .. BatchLimit /\ Launch(r, h, taken)
      /\ hints' = [k \in DOMAIN hints \ H |-> hints[k]]
      /\ liveQ' = SubSeq(liveQ, n + 1, Len(liveQ))
  BY <1>2, <1>3, <1>4, <1>5, <1>6, <1>7, <1>8
<1>10. /\ taken \in Seq(Payload(Sessions)) /\ Len(taken) = n
       /\ Cardinality(H) \in Nat
       /\ P \in Seq(Payload(Keys)) /\ Len(P) = Cardinality(H) + n
       /\ \A k \in H : \E i \in 1 .. Len(P) : P[i] = hints[k]
       /\ HintMap(h) /\ HintMap(hints')
       /\ liveQ' \in Seq(Payload(Sessions)) /\ Len(liveQ') = Len(liveQ) - n
  <2>1. BatchMade(H, n, taken, P)
    BY <1>3, <1>4, BatchFacts
  <2>2. HintMap(h)
    BY <1>8, <2>1 DEF BatchMade
  <2>3. HintMap(hints')
    BY <1>9, <2>1 DEF BatchMade
  <2> QED
    BY <1>9, <2>1, <2>2, <2>3 DEF BatchMade
<1>11. /\ liveSeq \in Nat /\ BatchLimit \in Nat /\ n \in Nat
       /\ Len(liveQ) \in Nat /\ Len(P) \in Nat
  BY <1>9, BatchLimitAssumption, LenProperties
  DEF NInv, EpochsApart, LiveInv, LiveTypes
<1>12. /\ RequestShape(r) /\ r.kind = "live" /\ r.first = first /\ r.last = last
       /\ r.events = e /\ r.pos = first - 1
  BY <1>7, RequestFields
<1>13. /\ flight' # NoFlight /\ flight'.request = r /\ flight'.ack = NoAck
       /\ flight'.hints = h /\ flight'.queued = taken
  BY <1>9 DEF Launch, NoFlight
<1>14. LiveFlight' /\ ~LiveFlight
  BY <1>1, <1>12, <1>13 DEF LiveFlight
<1>15. LiveRequest(r)
  <2>1. ASSUME NEW s \in first .. last PROVE e[s] \in Payload(Keys)
    <3>1. s \in liveSeq + 1 .. liveSeq + Len(P) /\ s - liveSeq \in 1 .. Len(P)
      BY <1>6, <1>11
    <3>2. e[s] = P[s - liveSeq]
      BY <1>5, <3>1
    <3> QED
      BY <1>10, <3>1, <3>2, ElementOfSeq
  <2>2. /\ first \in Nat \ {0} /\ last \in Nat /\ first - 1 \in Nat
        /\ first <= last /\ first - 1 <= last
    BY <1>6, <1>9, <1>11
  <2> QED
    BY <1>12, <2>1, <2>2 DEF LiveRequest
<1>16. LiveTypes'
  <2>1. Underway' = late \cup {r}
    BY <1>1, <1>13 DEF Underway
  <2>2. late \subseteq Underway
    BY DEF Underway
  <2> QED
    BY <1>1, <1>10, <1>15, <2>1, <2>2 DEF LiveInv, LiveTypes, HintMap, LiveRequest
<1>17. TakenInv'
  <2>1. taken # <<>> \/ DOMAIN h # {}
    <3>1. CASE n > 0
      BY <1>10, <3>1, EmptySeq
    <3>2. CASE n = 0
      <4>1. Cardinality(H) > 0
        BY <1>9, <1>10, <3>2
      <4>2. H # {}
        BY <4>1, FS_EmptySet
      <4> QED
        BY <1>8, <4>2
    <3> QED
      BY <1>11, <3>1, <3>2
  <2>2. n <= BatchLimit
    BY <1>9, <1>10, <1>11
  <2>3. ASSUME NEW k \in DOMAIN h PROVE \E s \in first .. last : e[s] = h[k]
    <3>1. PICK i \in 1 .. Len(P) : P[i] = hints[k]
      BY <1>8, <1>10
    <3>2. liveSeq + i \in first .. last /\ (liveSeq + i) - liveSeq = i
      BY <1>6, <1>11
    <3>3. e[liveSeq + i] = P[i]
      BY <1>5, <1>6, <3>2
    <3> QED
      BY <1>8, <3>1, <3>2, <3>3
  <2>4. first .. first - 1 = {}
    BY <1>6, <1>11
  <2>5. h \in {h} /\ HintMap(h) /\ HintMap(flight'.hints)
    BY <1>10, <1>13
  <2>6. HintMap(flight.hints)'
    BY <2>5 DEF HintMap
  <2> QED
    BY <1>10, <1>12, <1>13, <2>1, <2>2, <2>3, <2>4, <2>6 DEF TakenInv
<1>18. BufferInv'
  <2>1. Len(liveQ) <= LiveLimit + BatchLimit /\ LiveLimit \in Nat
    BY DeliveryAssumption DEF LiveInv, BufferInv
  <2> QED
    BY <1>10, <1>11, <1>13, <2>1 DEF BufferInv
<1>19. TurnInv'
  BY <1>1, <1>14 DEF LiveInv, TurnInv
<1>20. GitInv'
  BY <1>1, <1>8, <1>9, <1>13, <1>14 DEF LiveInv, GitInv
<1> QED
  BY <1>16, <1>17, <1>18, <1>19, <1>20 DEF LiveInv
-----------------------------------------------------------------------------
(* Answers and failures.                                                   *)

\* restoreLiveEventBatch(): nothing of the batch is lost, and no hint that
\* came meanwhile is replaced.
LEMMA RestoreFacts ==
    ASSUME LiveInv, flight # NoFlight, phase = "up", Restore
    PROVE  /\ liveQ' \in Seq(Payload(Sessions)) /\ HintMap(hints')
           /\ Len(liveQ') <= LiveLimit + BatchLimit
           /\ HasLive \/ LiveFlight => HasLive'
           /\ \A w \in Watches :
                  /\ w \in DOMAIN hints' => hints'[w].n = newest[w]
                  /\ newest[w] > 0 => w \in DOMAIN hints' \/ shown[w] >= newest[w]
<1>1. /\ liveQ \in Seq(Payload(Sessions)) /\ HintMap(hints)
      /\ Len(liveQ) <= LiveLimit + BatchLimit
  BY DEF LiveInv, LiveTypes, BufferInv
<1>2. CASE ~LiveFlight
  <2>1. liveQ' = liveQ /\ hints' = hints
    BY <1>2 DEF Restore, LiveFlight
  <2> QED
    BY <1>1, <1>2, <2>1 DEF LiveInv, GitInv, HasLive
<1>3. CASE LiveFlight
  <2> DEFINE h == flight.hints
             q == flight.queued
  <2>1. /\ liveQ' = q \o liveQ
        /\ hints' = [k \in DOMAIN hints \cup DOMAIN h |->
                         IF k \in DOMAIN hints THEN hints[k] ELSE h[k]]
    BY <1>3 DEF Restore, LiveFlight
  <2>2. HintMap(h) /\ q \in Seq(Payload(Sessions)) /\ (q # <<>> \/ DOMAIN h # {})
    BY <1>3 DEF LiveInv, TakenInv
  <2> HIDE DEF h, q
  <2>3. liveQ' \in Seq(Payload(Sessions)) /\ Len(liveQ') = Len(q) + Len(liveQ)
        /\ (q # <<>> => liveQ' # <<>>)
    BY <1>1, <2>1, <2>2, ConcatProperties, ConcatEqualIffEmpty, ConcatSimplifications,
       EmptySeq
  <2>4. Len(liveQ) + Len(q) <= LiveLimit + BatchLimit
    BY <1>3 DEF LiveInv, BufferInv, q
  <2>5. Len(q) \in Nat /\ Len(liveQ) \in Nat
    BY <1>1, <2>2, LenProperties
  <2>6. IsFiniteSet(DOMAIN hints')
    BY <1>1, <2>1, <2>2, FS_Union DEF HintMap
  <2>7. HintMap(hints')
    BY <1>1, <2>1, <2>2, <2>6 DEF HintMap
  <2>8. HasLive'
    BY <2>1, <2>2, <2>3 DEF HasLive
  <2>9. ASSUME NEW w \in Watches
        PROVE  /\ w \in DOMAIN hints' => hints'[w].n = newest[w]
               /\ newest[w] > 0 => w \in DOMAIN hints' \/ shown[w] >= newest[w]
    <3>1. /\ w \in DOMAIN hints => hints[w].n = newest[w]
          /\ w \in DOMAIN h /\ w \notin DOMAIN hints => h[w].n = newest[w]
          /\ newest[w] > 0 => \/ w \in DOMAIN hints \/ w \in DOMAIN h
                              \/ shown[w] >= newest[w]
      BY <1>3 DEF LiveInv, GitInv, h
    <3> QED
      BY <2>1, <3>1
  <2> QED
    BY <2>3, <2>4, <2>5, <2>7, <2>8, <2>9
<1> QED
  BY <1>2, <1>3

\* After it, the connector waits for no answer.
LEMMA RestoredStep ==
    ASSUME LiveInv, flight # NoFlight, phase = "up", phase' \in {"up", "stopping"},
           Restore, flight' = NoFlight,
           UNCHANGED <<journal, preferLive, newest, shown, passed, counts>>,
           \A r \in Underway' : \E q \in Underway : Like(r, q)
    PROVE  LiveInv'
<1>1. /\ liveQ' \in Seq(Payload(Sessions)) /\ HintMap(hints')
      /\ Len(liveQ') <= LiveLimit + BatchLimit
      /\ HasLive \/ LiveFlight => HasLive'
      /\ \A w \in Watches :
             /\ w \in DOMAIN hints' => hints'[w].n = newest[w]
             /\ newest[w] > 0 => w \in DOMAIN hints' \/ shown[w] >= newest[w]
  BY RestoreFacts
<1>2. ~LiveFlight'
  BY DEF LiveFlight
<1>3. \A r \in Underway' : r.kind = "live" => LiveRequest(r)
  BY LikeLive DEF LiveInv
<1>4. LiveTypes'
  BY <1>1, <1>3 DEF LiveInv, LiveTypes, HintMap, LiveRequest
<1>5. TakenInv' /\ BufferInv' /\ GitInv'
  BY <1>1, <1>2 DEF TakenInv, BufferInv, GitInv
<1>6. TurnInv'
  BY <1>1, <1>2 DEF LiveInv, TurnInv
<1> QED
  BY <1>4, <1>5, <1>6 DEF LiveInv

\* Failed requests, refused fragments and stop().
LEMMA FailedStep ==
    ASSUME IInv, TypeInv, LiveInv,
           RequestFails \/ ConnectionLost \/ FragmentRefused \/ Stop
    PROVE  LiveInv'
<1>1. \A r \in Underway' : \E q \in Underway : Like(r, q)
  BY NoNewRequest DEF Bystander
<1>2. /\ UNCHANGED <<journal, preferLive, newest, shown, passed, counts>>
      /\ flight' = NoFlight
  BY DEF RequestFails, ConnectionLost, GiveUp, FragmentRefused, Stop, disk, memory
<1>3. CASE flight # NoFlight
  <2>1. Restore /\ phase' \in {"up", "stopping"} /\ phase = "up"
    BY <1>3 DEF RequestFails, ConnectionLost, GiveUp, FragmentRefused, Stop,
       LiveInv, LiveTypes
  <2> QED
    BY <1>1, <1>2, <1>3, <2>1, RestoredStep
<1>4. CASE flight = NoFlight
  <2>1. UNCHANGED <<liveQ, hints>> /\ phase = "up" /\ phase' = "stopping"
    BY <1>4 DEF RequestFails, ConnectionLost, FragmentRefused, Awaited, Stop
  <2>2. ~LiveFlight /\ ~LiveFlight'
    BY <1>2, <1>4 DEF LiveFlight
  <2>3. \A r \in Underway' : r.kind = "live" => LiveRequest(r)
    BY <1>1, LikeLive DEF LiveInv
  <2>4. LiveTypes'
    BY <1>2, <2>1, <2>3 DEF LiveInv, LiveTypes, HintMap, LiveRequest
  <2>5. TakenInv' /\ BufferInv' /\ GitInv' /\ TurnInv'
    BY <1>2, <1>4, <2>1, <2>2 DEF LiveInv, TakenInv, BufferInv, GitInv, TurnInv, HasLive
  <2> QED
    BY <2>4, <2>5 DEF LiveInv
<1> QED
  BY <1>3, <1>4

\* A process that ends takes its lane with it, and a new one starts empty.
LEMMA ExitStartStep ==
    ASSUME IInv, TypeInv, LiveInv, Exit \/ Start PROVE LiveInv'
<1>1. \A r \in Underway' : \E q \in Underway : Like(r, q)
  BY NoNewRequest DEF Bystander
<1>2. \A r \in Underway' : r.kind = "live" => LiveRequest(r)
  BY <1>1, LikeLive DEF LiveInv
<1>3. CASE Exit
  <2>1. /\ UNCHANGED <<liveQ, hints, newest, shown, passed>>
        /\ flight' = NoFlight /\ phase' = "down"
        /\ counts' = [counts EXCEPT !.exits = @ + 1]
    BY <1>3 DEF Exit, lanes, memory
  <2>2. /\ counts' = [live |-> counts'.live, exits |-> counts'.exits,
                      restarts |-> counts'.restarts]
        /\ counts'.live = counts.live
    BY <2>1 DEF LiveInv, LiveTypes
  <2>3. LiveTypes'
    BY <1>2, <2>1, <2>2 DEF LiveInv, LiveTypes, HintMap, LiveRequest
  <2>4. TakenInv' /\ BufferInv' /\ GitInv' /\ TurnInv'
    BY <2>1 DEF LiveInv, TakenInv, BufferInv, GitInv, TurnInv, LiveFlight
  <2> QED
    BY <2>3, <2>4 DEF LiveInv
<1>4. CASE Start
  <2>1. /\ UNCHANGED <<shown, counts, flight>> /\ flight = NoFlight
        /\ phase' = "up"
        /\ liveQ' = <<>> /\ hints' = [k \in {} |-> 0]
        /\ newest' = [k \in Keys |-> 0] /\ passed' = [durable |-> 0, live |-> 0]
    BY <1>4 DEF Start, server, memory, LiveInv, LiveTypes
  <2>2. HintMap(hints)'
    BY <2>1, FS_EmptySet DEF HintMap
  <2>3. liveQ' \in Seq(Payload(Sessions)) /\ Len(liveQ') = 0
    BY <2>1, EmptySeq
  <2>4. LiveTypes'
    BY <1>2, <2>1, <2>2, <2>3 DEF LiveInv, LiveTypes, LiveRequest
  <2>5. TakenInv' /\ GitInv' /\ TurnInv'
    BY <2>1 DEF TakenInv, GitInv, TurnInv, LiveFlight, Keys
  <2>6. BufferInv'
    BY <2>1, <2>3, DeliveryAssumption, BatchLimitAssumption DEF BufferInv, LiveFlight
  <2> QED
    BY <2>4, <2>5, <2>6 DEF LiveInv
<1> QED
  BY <1>3, <1>4

\* An answer to a durable batch gives the live lane its turn.
LEMMA DurableAckedLive ==
    ASSUME IInv, TypeInv, LiveInv, DurableAcked PROVE LiveInv'
<1>1. /\ UNCHANGED <<phase, liveQ, hints, newest, shown, counts>>
      /\ flight # NoFlight /\ flight.request.kind = "durable" /\ flight' = NoFlight
      /\ preferLive' = TRUE /\ phase = "up"
      /\ passed' = [durable |-> IF HasLive THEN passed.durable + 1 ELSE 0,
                    live |-> 0]
  BY DEF DurableAcked, server, memory
<1>2. ~LiveFlight /\ ~LiveFlight'
  BY <1>1 DEF LiveFlight
<1>3. \A r \in Underway' : r.kind = "live" => LiveRequest(r)
  BY NoNewRequest, LikeLive DEF LiveInv
<1>4. LiveTypes'
  BY <1>1, <1>3 DEF LiveInv, LiveTypes, HintMap, LiveRequest
<1>5. TakenInv' /\ BufferInv' /\ GitInv'
  BY <1>1, <1>2 DEF LiveInv, TakenInv, BufferInv, GitInv
<1>6. passed.durable = 0
  BY <1>1, <1>2 DEF LiveInv, TurnInv
<1>7. TurnInv'
  BY <1>1, <1>2, <1>6 DEF TurnInv, HasLive
<1> QED
  BY <1>4, <1>5, <1>7 DEF LiveInv
\* An answer to a live batch: either all of it has been processed, or all of
\* it goes back to be sent again under a new epoch.
LEMMA LiveAckedLive ==
    ASSUME IInv, TypeInv, LiveInv, LiveAcked PROVE LiveInv'
<1> DEFINE r == flight.request
           a == flight.ack
<1>1. /\ flight # NoFlight /\ r.kind = "live" /\ a # NoAck /\ phase = "up"
      /\ flight' = NoFlight
      /\ UNCHANGED <<journal, phase, newest, shown, counts>>
  BY DEF LiveAcked, disk, server, memory
<1>2. LiveFlight /\ ~LiveFlight'
  BY <1>1 DEF LiveFlight
<1>3. \A q \in Underway' : \E u \in Underway : Like(q, u)
  BY NoNewRequest DEF Bystander
<1>4. CASE a = r.last /\ UNCHANGED <<liveQ, hints>>
  <2>1. /\ preferLive' = FALSE
        /\ passed' = [live |-> IF Pending(journal) # {} THEN passed.live + 1 ELSE 0,
                      durable |-> 0]
    <3>1. a \notin 0 .. r.first - 1
      <4>1. LiveRequest(r)
        BY <1>1 DEF LiveInv, LiveTypes, Underway
      <4> QED
        BY <1>4, <4>1 DEF LiveRequest
    <3> QED
      BY <3>1 DEF LiveAcked
  <2>2. LiveRequest(r) /\ r.pos = r.last
    <3>1. LiveRequest(r)
      BY <1>1 DEF LiveInv, LiveTypes, Underway
    <3>2. a # 0
      BY <1>4, <3>1 DEF LiveRequest
    <3> QED
      BY <1>1, <1>2, <3>1, <3>2 DEF LiveInv, TakenInv
  <2>3. \A q \in Underway' : q.kind = "live" => LiveRequest(q)
    BY <1>3, LikeLive DEF LiveInv
  <2>4. LiveTypes'
    BY <1>1, <1>4, <2>3 DEF LiveInv, LiveTypes, HintMap, LiveRequest
  <2>5. TakenInv' /\ BufferInv'
    BY <1>2, <1>4 DEF LiveInv, TakenInv, BufferInv
  <2>6. TurnInv'
    <3>1. passed.live = 0
      BY <1>1, <1>2 DEF LiveInv, TurnInv
    <3> QED
      BY <1>1, <1>2, <2>1, <3>1 DEF TurnInv
  <2>7. GitInv'
    <3> SUFFICES ASSUME NEW w \in Watches
                 PROVE  /\ w \in DOMAIN hints => hints[w].n = newest[w]
                        /\ newest[w] > 0 =>
                               w \in DOMAIN hints \/ shown[w] >= newest[w]
      BY <1>1, <1>2, <1>4 DEF GitInv
    <3>1. ASSUME w \in DOMAIN flight.hints, w \notin DOMAIN hints
          PROVE  shown[w] >= newest[w]
      <4>1. PICK s \in r.first .. r.last : r.events[s] = flight.hints[w]
        BY <1>2, <3>1 DEF LiveInv, TakenInv
      <4>2. shown[r.events[s].key] >= r.events[s].n
        BY <1>2, <2>2, <4>1 DEF LiveInv, TakenInv
      <4>3. flight.hints[w].key = w /\ flight.hints[w].n = newest[w]
        BY <1>1, <1>2, <3>1 DEF LiveInv, TakenInv, HintMap, GitInv, Payload
      <4> QED
        BY <4>1, <4>2, <4>3
    <3> QED
      BY <1>1, <1>2, <3>1 DEF LiveInv, GitInv
  <2> QED
    BY <2>4, <2>5, <2>6, <2>7 DEF LiveInv
<1>5. CASE Restore /\ UNCHANGED <<preferLive, passed>>
  BY <1>1, <1>3, <1>5, RestoredStep
<1> QED
  BY <1>4, <1>5 DEF LiveAcked

-----------------------------------------------------------------------------
(* Processing an event.                                                    *)

\* What the server has processed of a key only grows.
LEMMA ShownGrows ==
    ASSUME LiveInv, NEW r \in Underway, r.kind \in Kinds, r.pos < r.last, Process(r)
    PROVE  /\ shown' \in [Keys -> Nat] /\ \A k \in Keys : shown'[k] >= shown[k]
           /\ r.kind = "live" =>
                  shown'[r.events[r.pos + 1].key] >= r.events[r.pos + 1].n
<1>1. shown \in [Keys -> Nat]
  BY DEF LiveInv, LiveTypes
<1>2. CASE r.kind = "durable"
  BY <1>1, <1>2 DEF Process
<1>3. CASE r.kind = "live"
  <2> PICK p : p = r.events[r.pos + 1]
    OBVIOUS
  <2>1. LiveRequest(r)
    BY <1>3 DEF LiveInv, LiveTypes
  <2>2. p \in Payload(Keys)
    BY <2>1 DEF LiveRequest
  <2>3. shown' = [shown EXCEPT ![p.key] = IF @ < p.n THEN p.n ELSE @]
    BY <1>3 DEF Process
  <2> QED
    BY <1>1, <2>2, <2>3 DEF Payload
<1> QED
  BY <1>2, <1>3 DEF Kinds

\* The server processes an event of a request: what it has been shown grows, by
\* what the request carries.
LEMMA AcceptLive ==
    ASSUME IInv, TypeInv, LiveInv, AcceptEvent \/ AcceptLate PROVE LiveInv'
<1>1. PICK r \in Underway :
          /\ r.kind \in Kinds /\ r.pos < r.last /\ Process(r)
          /\ AcceptEvent => r = flight.request
  <2>1. CASE AcceptEvent
    BY <2>1 DEF AcceptEvent, Awaited, Underway, TypeInv
  <2>2. CASE AcceptLate /\ ~AcceptEvent
    BY <2>2 DEF AcceptLate, Underway, TypeInv
  <2> QED
    BY <2>1, <2>2
<1>2. /\ shown' \in [Keys -> Nat] /\ \A k \in Keys : shown'[k] >= shown[k]
      /\ r.kind = "live" =>
             shown'[r.events[r.pos + 1].key] >= r.events[r.pos + 1].n
  BY <1>1, ShownGrows
<1>3. /\ UNCHANGED <<journal, phase, preferLive, liveQ, hints, newest, passed>>
      /\ counts' = counts
      /\ \/ flight' = flight
         \/ /\ AcceptEvent /\ flight # NoFlight /\ flight.ack = NoAck
            /\ flight' = [flight EXCEPT !.request = Advanced(@)]
  BY DEF AcceptEvent, AcceptLate, Awaited, disk, lanes
<1>4. \A q \in Underway' : \E u \in Underway : Like(q, u)
  BY NoNewRequest
<1>5. flight # NoFlight =>
          LET q == flight.request
              u == flight'.request
          IN  /\ flight' # NoFlight
              /\ flight'.hints = flight.hints /\ flight'.queued = flight.queued
              /\ flight'.ack = flight.ack
              /\ u.kind = q.kind /\ u.first = q.first /\ u.last = q.last
              /\ u.events = q.events
              /\ \/ u.pos = q.pos
                 \/ u.pos = q.pos + 1 /\ q = r /\ flight.ack = NoAck
  <2> SUFFICES ASSUME flight # NoFlight, flight' # flight
               PROVE  LET q == flight.request
                          u == flight'.request
                      IN  /\ flight' # NoFlight
                          /\ flight'.hints = flight.hints
                          /\ flight'.queued = flight.queued
                          /\ flight'.ack = flight.ack
                          /\ u.kind = q.kind /\ u.first = q.first
                          /\ u.last = q.last /\ u.events = q.events
                          /\ u.pos = q.pos + 1 /\ q = r /\ flight.ack = NoAck
    OBVIOUS
  <2>1. FlightShape(flight) /\ RequestShape(flight.request)
    BY DEF TypeInv, IInv, FlightInv, RequestInv
  <2>2. /\ flight.ack = NoAck /\ flight.request = r
        /\ flight' = [flight EXCEPT !.request = Advanced(flight.request)]
    BY <1>1, <1>3
  <2> QED
    BY <2>1, <2>2 DEF FlightShape, RequestShape, Advanced, NoFlight
<1>6. flight = NoFlight => flight' = NoFlight
  BY <1>3
<1>7. LiveFlight' <=> LiveFlight
  BY <1>5, <1>6 DEF LiveFlight
<1>8. LiveTypes'
  <2>1. \A q \in Underway' : q.kind = "live" => LiveRequest(q)
    BY <1>4, LikeLive DEF LiveInv
  <2> QED
    BY <1>2, <1>3, <1>6, <2>1 DEF LiveInv, LiveTypes, HintMap, LiveRequest
<1>9. TakenInv'
  <2> SUFFICES ASSUME LiveFlight PROVE TakenInv'
    BY <1>7 DEF TakenInv
  <2> DEFINE q == flight.request
             u == flight'.request
  <2>1. flight # NoFlight /\ q \in Underway
    BY DEF LiveFlight, Underway
  <2>2. LiveRequest(q)
    BY <2>1 DEF LiveFlight, LiveInv, LiveTypes
  <2>3. /\ HintMap(flight.hints) /\ flight.queued \in Seq(Payload(Sessions))
        /\ Len(flight.queued) <= BatchLimit
        /\ flight.queued # <<>> \/ DOMAIN flight.hints # {}
        /\ \A k \in DOMAIN flight.hints :
               \E s \in q.first .. q.last : q.events[s] = flight.hints[k]
        /\ \/ flight.ack \in {NoAck, 0}
           \/ flight.ack = q.last /\ q.pos = q.last
        /\ \A s \in q.first .. q.pos : shown[q.events[s].key] >= q.events[s].n
    BY DEF LiveInv, TakenInv
  <2>4. ASSUME NEW s \in u.first .. u.pos
        PROVE  shown'[u.events[s].key] >= u.events[s].n
    <3>1. CASE s \in q.first .. q.pos
      <4>1. q.events[s] \in Payload(Keys)
        BY <2>2, <3>1 DEF LiveRequest
      <4>2. shown[q.events[s].key] >= q.events[s].n
        BY <2>3, <3>1
      <4>3. u.events = q.events
        BY <1>5, <2>1
      <4> QED
        BY <1>2, <4>1, <4>2, <4>3 DEF Payload, LiveInv, LiveTypes
    <3>2. CASE s \notin q.first .. q.pos
      <4>1. s = q.pos + 1 /\ q = r /\ u.events = q.events
        BY <1>5, <2>1, <2>2, <3>2 DEF LiveRequest
      <4>2. q.kind = "live"
        BY DEF LiveFlight
      <4> QED
        BY <1>2, <4>1, <4>2
    <3> QED
      BY <3>1, <3>2
  <2>5. HintMap(flight.hints)'
    BY <1>5, <2>1, <2>3 DEF HintMap
  <2>6. /\ flight'.queued = flight.queued /\ flight'.hints = flight.hints
        /\ flight'.ack = flight.ack /\ u.first = q.first /\ u.last = q.last
        /\ u.events = q.events
        /\ u.pos = q.pos \/ flight.ack = NoAck
    BY <1>5, <2>1
  <2> QED
    BY <2>3, <2>4, <2>5, <2>6 DEF TakenInv
<1>10. BufferInv' /\ TurnInv'
  BY <1>3, <1>5, <1>6, <1>7 DEF LiveInv, BufferInv, TurnInv, HasLive, LiveFlight
<1>11. GitInv'
  <2>1. \A w \in Watches : /\ shown'[w] >= shown[w] /\ newest[w] \in Nat
                           /\ shown[w] \in Nat /\ shown'[w] \in Nat
    BY <1>2 DEF Keys, LiveInv, LiveTypes
  <2>2. LiveFlight => flight'.hints = flight.hints
    BY <1>5 DEF LiveFlight
  <2> QED
    BY <1>3, <1>7, <2>1, <2>2 DEF LiveInv, GitInv
<1> QED
  BY <1>8, <1>9, <1>10, <1>11 DEF LiveInv
-----------------------------------------------------------------------------
(* Theorems.                                                               *)

\* The invariant of the live lane holds in every reachable state.
LEMMA LiveInvariance == Spec => []LiveInv
<1>1. Init => LiveInv
  <2> SUFFICES ASSUME Init PROVE LiveInv
    OBVIOUS
  <2>1. Underway = {} /\ ~LiveFlight
    BY DEF Init, Underway, LiveFlight
  <2>2. <<>> \in Seq(Payload(Sessions)) /\ Len(<<>>) = 0
    BY EmptySeq
  <2>3. HintMap(hints)
    BY FS_EmptySet DEF Init, HintMap
  <2>4. LiveTypes
    BY <2>1, <2>2, <2>3 DEF Init, LiveTypes
  <2>5. TakenInv /\ TurnInv /\ GitInv
    BY <2>1 DEF Init, TakenInv, TurnInv, GitInv, Keys
  <2>6. BufferInv
    BY <2>1, <2>2, DeliveryAssumption, BatchLimitAssumption DEF Init, BufferInv
  <2> QED
    BY <2>4, <2>5, <2>6 DEF LiveInv
<1>2. IInv /\ TypeInv /\ NInv /\ LiveInv /\ [Next]_vars => LiveInv'
  <2> SUFFICES ASSUME IInv, TypeInv, NInv, LiveInv, [Next]_vars PROVE LiveInv'
    OBVIOUS
  <2>1. CASE Aside
    BY <2>1, AsideStep
  <2>2. CASE (\E s \in Sessions : EmitSession(s)) \/ (\E w \in Watches : EmitGit(w))
    BY <2>2, EmitSessionStep, EmitGitStep
  <2>3. CASE FlushDurable \/ FlushLive
    BY <2>3, FlushDurableLive, FlushLiveLive
  <2>4. CASE DurableAcked \/ LiveAcked
    BY <2>4, DurableAckedLive, LiveAckedLive
  <2>5. CASE RequestFails \/ ConnectionLost \/ FragmentRefused \/ Stop
    BY <2>5, FailedStep
  <2>6. CASE Exit \/ Start
    BY <2>6, ExitStartStep
  <2>7. CASE AcceptEvent \/ AcceptLate
    BY <2>7, AcceptLive
  <2>8. CASE UNCHANGED vars
    <3>1. /\ UNCHANGED <<journal, phase, flight, preferLive, liveQ, hints, late>>
          /\ UNCHANGED <<newest, shown, passed, counts>>
      BY <2>8 DEF vars, disk, lanes, server, memory
    <3> QED
      BY <3>1 DEF LiveInv, LiveTypes, TakenInv, BufferInv, TurnInv, GitInv, HintMap,
         LiveFlight, LiveRequest, HasLive, Underway
  <2> QED
    BY <2>1, <2>2, <2>3, <2>4, <2>5, <2>6, <2>7, <2>8
    DEF Next, Connector, Server, Aside
<1> QED
  BY Invariance, Typing, CursorsSound, <1>1, <1>2, PTL DEF Spec

\* flush() (client.ts): while both lanes wait, at most one delivered batch of
\* a lane passes the other by, through failures, exits and new processes.
THEOREM TurnsAlternate == Spec => []LanesAlternate
<1>1. LiveInv => LanesAlternate
  BY DEF LiveInv, TurnInv, LanesAlternate
<1> QED
  BY LiveInvariance, <1>1, PTL

\* enqueue() and restoreLiveEventBatch() (client.ts): the buffer never holds
\* more than its limit and one batch, however often a batch is put back.
THEOREM BufferBounded == Spec => []LiveBufferBounded
<1>1. LiveInv => LiveBufferBounded
  BY DEF LiveInv, BufferInv, LiveBufferBounded
<1> QED
  BY LiveInvariance, <1>1, PTL

\* enqueue() (client.ts): a Git status that has not been processed is
\* replaced by a newer one and never lost, while the connector is up.
THEOREM NewestStatusHeld == Spec => []NewestGitStatusHeld
<1>1. LiveInv => NewestGitStatusHeld
  <2> SUFFICES ASSUME LiveInv, phase = "up", NEW w \in Watches, newest[w] > 0,
                      ~(shown[w] >= newest[w])
               PROVE  Held(w)
    BY DEF NewestGitStatusHeld, NewestHeldFor
  <2>1. CASE w \in DOMAIN hints
    <3>1. hints[w].key = w /\ hints[w].n = newest[w]
      BY <2>1 DEF LiveInv, LiveTypes, HintMap, Payload, GitInv
    <3> QED
      BY <2>1, <3>1 DEF Held
  <2>2. CASE w \notin DOMAIN hints
    <3>1. LiveFlight /\ w \in DOMAIN flight.hints
      BY <2>2 DEF LiveInv, GitInv
    <3>2. flight.hints[w].key = w /\ flight.hints[w].n = newest[w]
      BY <2>2, <3>1 DEF LiveInv, TakenInv, HintMap, Payload, GitInv
    <3>3. PICK s \in flight.request.first .. flight.request.last :
              flight.request.events[s] = flight.hints[w]
      BY <3>1 DEF LiveInv, TakenInv
    <3> QED
      BY <3>1, <3>2, <3>3 DEF Held, LiveFlight
  <2> QED
    BY <2>1, <2>2
<1> QED
  BY LiveInvariance, <1>1, PTL
=============================================================================
